---- MODULE Spec2Model ----
(***************************************************************************)
(* Model of the Productive -> Linear export orchestrator.                  *)
(*                                                                         *)
(*   Spec          one export job: submission, the worker processExportJob *)
(*                 with its chunked item tasks, stop requests and the      *)
(*                 retention sweep of the job registry.                    *)
(*   SpecFetch     one fetchAllPages call against a paged upstream, with   *)
(*                 the clock and the global cooldown.                      *)
(*   SpecCooldown  two concurrent fetchAllPages calls and a person lookup  *)
(*                 sharing the clock and the global cooldown.              *)
(*   SpecApi       the HTTP handlers (submission with its validation,      *)
(*                 download) over a job with a short task list.            *)
(*   SpecRepl      replication runs of tasks, one after the other, against *)
(*                 the issues of the Linear team.                          *)
(*   SpecStream    one observer of the job's event stream, with fairness   *)
(*                 for the two timers of the stream handler.               *)
(*   SpecSweep     the job registry with two jobs, a clock and the sweep.  *)
(*   SpecRegistry  the job registry with two jobs and the calls of         *)
(*                 updateJob and stopJob, for ids it holds and ids it does *)
(*                 not.                                                    *)
(*   SpecMap       mapProductiveStatusToLinearState on workflow statuses   *)
(*                 and team states.                                        *)
(*   SpecPersons   the author lookups of one fetchTaskComments pass.        *)
(*   SpecItem      the replication of one item after createLinearIssue.     *)
(*   SpecLive      the worker with fairness of its steps (termination).      *)
(*   SpecView      the snapshots of a job: event stream and status endpoint. *)
(*   SpecGql       one graphqlRequest call against a clock.                *)
(*   SpecCsv       generateCSV and a reader of its text.                   *)
(*   SpecComments  the comments of one item, from their fetch to their     *)
(*                 submission to the issue.                                *)
(*   SpecArchive   one archiveIssues call with the requests it makes.      *)
(*   SpecAttach    the attachment handling of one item, URL by URL.        *)
(*                                                                         *)
(* Each specification moves its own variables and leaves the others at     *)
(* their initial values.                                                   *)
(*                                                                         *)
(* Code between two awaits of a network call or a timer runs without       *)
(* interruption (single-threaded event loop), so every action is one such  *)
(* run: the completion of an awaited call followed by everything the       *)
(* worker does up to its next await.                                       *)
(***************************************************************************)
EXTENDS Integers, Sequences, FiniteSets, TLC

\* ------------------------------------------------------------------ bounds
MaxTasks == 6          \* longest task list the upstream returns
MaxMixed == 2          \* longest task list whose tasks are of mixed kinds

\* numbers of comments a fetchTaskComments call may find
CommentCounts == 0..1

\* lengths of the task lists of a job that imports to Linear (its item tasks take
\* two steps each, so three of them in flight are beyond the model checker)
LinearLens == 0..2

\* ------------------------------------------------------- program constants
concurrency == 5
TestSampleSize == 3

JobId == "j1"

VARIABLES
    heap,        \* job objects by id (a deleted job's object lives on: the worker holds it)
    jobs,        \* keys of the registry Map `jobs`
    w,           \* locals of the worker processExportJob of the job
    items,       \* the item tasks (chunkPromises) of the chunk in flight
    statusHist,  \* history: every value assigned to the job's status, in order
    gaugeHist,   \* history: every value assigned to progress.activeRequests
    now,         \* Date.now()
    lastErrorTime, \* the module-level cooldown timestamp of export-worker
    upstream,    \* the paged resource the upstream serves
    fetchers,    \* the fetchAllPages calls in progress
    person,      \* a fetchPersonDetails call of some enrichment pass
    failAt,      \* history: time of the latest failure of an upstream request, -1 if none
    lastReq,     \* history: the latest request issued to the upstream
    target,      \* the issues of the Linear team, in creation order
    repl,        \* the replication run in progress
    runs,        \* history: the replication runs that have ended, in order
    seeded,      \* history: how many issues the team held before the first run
    csv,         \* one CSV generation and the reading back of its text
    call,        \* one call of the tail of an item task: comments, attachments, archiving
    gql,         \* one graphqlRequest call to the downstream API
    swept,       \* history: the registry was swept and not written to since
    stream,      \* the event stream of one observer of the job
    req,         \* the HTTP request handled last
    resp         \* the response to it

jobVars == <<heap, jobs, w, items, statusHist, gaugeHist>>
fetchVars == <<now, lastErrorTime, upstream, fetchers, person, failAt, lastReq>>

replVars == <<target, repl, runs, seeded>>
httpVars == <<stream, req, resp>>
regVars == <<swept>>
gqlVars == <<gql>>
csvVars == <<csv>>
callVars == <<call>>

vars == <<heap, jobs, w, items, statusHist, gaugeHist,
          now, lastErrorTime, upstream, fetchers, person, failAt, lastReq,
          target, repl, runs, seeded, gql,
          csv, call, swept, stream, req, resp>>

\* a step of the job specification leaves the other specifications' variables alone
JobOnly == UNCHANGED <<fetchVars, replVars, httpVars, regVars, gqlVars, csvVars, callVars>>

\* ---------------------------------------------------------------- helpers
None == <<>>
Some(v) == <<v>>

\* Object.assign(obj, u) / { ...obj, ...u }
Merge(obj, u) ==
    [f \in (DOMAIN obj) \cup (DOMAIN u) |-> IF f \in DOMAIN u THEN u[f] ELSE obj[f]]

RECURSIVE SelectSeqBy(_, _)
\* Array.prototype.filter with the predicate given as the set of kept values
SelectSeqBy(s, keep) ==
    IF s = <<>> THEN <<>>
    ELSE IF Head(s) \in keep THEN <<Head(s)>> \o SelectSeqBy(Tail(s), keep)
         ELSE SelectSeqBy(Tail(s), keep)

Min(a, b) == IF a < b THEN a ELSE b

RECURSIVE Total(_)
\* the sum of a sequence of numbers
Total(q) == IF q = <<>> THEN 0 ELSE Head(q) + Total(Tail(q))

\* ------------------------------------------------------------ upstream data
\* A task as far as the worker looks at it: whether its workflow status is in
\* the done vocabulary and whether it has a non-blank description.
TaskKinds == [done : BOOLEAN, desc : BOOLEAN]
PlainTask == [done |-> FALSE, desc |-> TRUE]

\* The task lists the primary fetch may return: every list of up to MaxMixed tasks
\* and the lists of plain tasks that fill at least one chunk.
Projects ==
    UNION { [1..n -> TaskKinds] : n \in 0..MaxMixed }
      \cup { [i \in 1..n |-> PlainTask] : n \in concurrency..MaxTasks }

\* ------------------------------------------------------------- job record
InitialProgress ==
    [tasksProcessed |-> 0, totalTasks |-> 0, commentsProcessed |-> 0,
     activeRequests |-> 0, startTime |-> 0]

NewJob(onlyNotDone, testMode, linear) ==
    [id |-> JobId, status |-> "pending",
     apiToken |-> "token", linearApiKey |-> "key",
     importToLinear |-> linear, onlyNotDoneTasks |-> onlyNotDone, testMode |-> testMode,
     logs |-> <<>>, progress |-> InitialProgress,
     error |-> None, csvData |-> None, linearIssuesCreated |-> None,
     shouldStop |-> FALSE]

NoItems == <<>>

\* pool and checks are history: the tasks the test-mode loop started from and what
\* the comment check of each task it got to came to
InitialWorker ==
    [pc |-> "none", tasks |-> <<>>, known |-> FALSE, cand |-> <<>>, both |-> <<>>,
     pool |-> <<>>, checks |-> <<>>,
     i |-> 0, all |-> <<>>, linear |-> FALSE, created |-> 0, rejected |-> FALSE]

\* The state the worker's code reads and writes, passed through its steps.
Cur == [job |-> heap[JobId], reg |-> JobId \in jobs, w |-> w, items |-> items,
        sh |-> statusHist, gh |-> gaugeHist]

Commit(s) ==
    /\ heap' = [heap EXCEPT ![JobId] = s.job]
    /\ w' = s.w
    /\ items' = s.items
    /\ statusHist' = s.sh
    /\ gaugeHist' = s.gh

\* (variant) an update that writes to the job whether the registry holds it or not
UpdateJob_Unguarded(s, updates) ==
    [s EXCEPT !.job = Merge(@, updates),
              !.sh = IF "status" \in DOMAIN updates THEN Append(@, updates.status) ELSE @]

\* updateJob(jobId, updates), reached through updateCallback
UpdateJob(s, updates) ==
    IF s.reg
    THEN [s EXCEPT !.job = Merge(@, updates),
                   !.sh = IF "status" \in DOMAIN updates THEN Append(@, updates.status) ELSE @]
    ELSE s

\* (variant) addLog publishing the new entry alone
AddLog_Replace(s, message, type) ==
    UpdateJob(s, [logs |-> <<[message |-> message, type |-> type]>>])

\* addLog: job.logs.push(newLog); updateCallback({ logs: [...job.logs] })
AddLog(s, message, type) ==
    LET pushed == [s EXCEPT !.job.logs = Append(@, [message |-> message, type |-> type])]
    IN  UpdateJob(pushed, [logs |-> pushed.job.logs])

\* updateProgress: job.progress = {...job.progress, ...updates}; updateCallback({progress})
UpdateProgress(s, updates) ==
    LET merged == [s EXCEPT !.job.progress = Merge(@, updates),
                            !.gh = IF "activeRequests" \in DOMAIN updates
                                   THEN Append(@, updates.activeRequests) ELSE @]
    IN  UpdateJob(merged, [progress |-> merged.job.progress])

RECURSIVE AddLogs(_, _, _, _)
\* n calls of addLog with the same message class
AddLogs(s, n, message, type) ==
    IF n = 0 THEN s ELSE AddLogs(AddLog(s, message, type), n - 1, message, type)

\* ------------------------------------------------ worker: processExportJob
\* The done-status test of the only-not-done filters: a task is dropped when its
\* workflow status was found and its name or type is in the done vocabulary.
IsDoneTask(known, t) == known /\ t.done

KeptTasks(known) == { t \in TaskKinds : ~IsDoneTask(known, t) }

\* (variant) a catch block that logs the failure and forgets to publish it
JobCatch_LogOnly(s, message) ==
    [AddLog(s, "Export failed", "error") EXCEPT !.w.pc = "done"]

\* catch (err) of processExportJob
JobCatch(s, message) ==
    LET logged == AddLog(s, "Export failed", "error")
        \* err.message || 'Unknown error occurred'
        failed == UpdateJob(logged, [status |-> "failed",
                                     error |-> Some(IF message = "" THEN "Unknown error occurred"
                                                    ELSE message)])
    IN  [failed EXCEPT !.w.pc = "done"]

\* (variant) a worker that ends after its last log without the completed update
Finish_Unpublished(s) ==
    [AddLog(s, "CSV ready for download!", "success") EXCEPT !.w.pc = "done"]

\* (variant) the completed update without the CSV, which a second update would bring
Finish_StatusAlone(s) ==
    LET l1 == AddLog(s, "Finished processing all comments", "success")
        done == UpdateJob(l1, [status |-> "completed"])
    IN  [done EXCEPT !.w.pc = "done"]

\* lines 988-1004: CSV generation and the completed update
Finish(s) ==
    LET l1 == AddLog(s, "Finished processing all comments", "success")
        l2 == AddLog(l1, "Generating CSV file...", "info")
        l3 == AddLog(l2, "CSV ready for download!", "success")
        l4 == IF s.job.importToLinear THEN AddLog(l3, "Linear import complete", "success") ELSE l3
        done == UpdateJob(l4, [status |-> "completed",
                               csvData |-> Some(s.w.all),
                               linearIssuesCreated |-> Some(s.w.created)])
    IN  [done EXCEPT !.w.pc = "done"]

\* An item task of a chunk.  threw records where the task raised an exception, if it did.
NewItem(t) ==
    [pc |-> "comments", task |-> t, count |-> 0, issueId |-> FALSE, shouldArchive |-> FALSE,
     threw |-> "none"]

Max(a, b) == IF a > b THEN a ELSE b

\* (variant) a slice without its end index
ChunkOf_NoEnd(tasks, i) == SubSeq(tasks, i + 1, Len(tasks))

\* (variant) a slice that starts one element early
ChunkOf_Overlap(tasks, i) == SubSeq(tasks, Max(i, 1), Min(i + concurrency, Len(tasks)))

\* tasks.slice(i, i + concurrency)
ChunkOf(tasks, i) == SubSeq(tasks, i + 1, Min(i + concurrency, Len(tasks)))

\* (variant) a chunk loop whose item tasks do not look at the stop flag
LoopChunk_NoStopCheck(s) ==
    IF s.w.i < Len(s.w.tasks)
    THEN LET chunk == ChunkOf(s.w.tasks, s.w.i)
             gauged == UpdateProgress(s, [activeRequests |-> Len(chunk)])
         IN  [gauged EXCEPT !.items = [k \in 1..Len(chunk) |-> NewItem(chunk[k])],
                            !.w.pc = "chunk"]
    ELSE Finish(s)

\* The head of the chunk loop: the loop test, the gauge update and the synchronous
\* start of every item task of the chunk, each of which tests the stop flag first.
LoopChunk(s) ==
    IF s.w.i < Len(s.w.tasks)
    THEN LET chunk == ChunkOf(s.w.tasks, s.w.i)
             gauged == UpdateProgress(s, [activeRequests |-> Len(chunk)])
         IN  IF s.job.shouldStop
             THEN LET warned == AddLogs(gauged, Len(chunk), "Export stopped by user", "warning")
                      thrown == [warned EXCEPT
                                   !.items = [k \in 1..Len(chunk) |->
                                                [NewItem(chunk[k]) EXCEPT !.pc = "rejected",
                                                                         !.threw = "stop"]],
                                   !.w.rejected = TRUE]
                  IN  JobCatch(thrown, "Export stopped by user")
             ELSE [gauged EXCEPT !.items = [k \in 1..Len(chunk) |-> NewItem(chunk[k])],
                                 !.w.pc = "chunk"]
    ELSE Finish(s)

\* lines 971-986: after the chunk's archive batch
AfterArchive(s) ==
    LET chunkTasks == [k \in 1..Len(s.items) |->
                          [task |-> s.items[k].task, comments |-> s.items[k].count]]
        joined == [s EXCEPT !.w.all = @ \o chunkTasks, !.items = NoItems]
        counted == UpdateProgress(joined, [tasksProcessed |-> Len(joined.w.all),
                                           activeRequests |-> 0])
        logged == AddLog(counted, "Progress", "success")
    IN  IF s.w.i + concurrency < Len(s.w.tasks)
        THEN [logged EXCEPT !.w.pc = "chunkSleep"]
        ELSE LoopChunk([logged EXCEPT !.w.i = @ + concurrency])

IssuesToArchive(its) == { k \in 1..Len(its) : its[k].issueId /\ its[k].shouldArchive }

\* Promise.all(chunkPromises) resolved: lines 954-969
ChunkSettled(s) ==
    IF IssuesToArchive(s.items) # {} /\ s.w.linear
    THEN [s EXCEPT !.w.pc = "archive"]
    ELSE AfterArchive(s)

\* lines 759-783: Linear initialisation, then the chunk loop
InitLinear(s) ==
    LET announced == AddLog(s, "Fetching comments using parallel processing", "info")
    IN  IF s.job.importToLinear
        THEN LET l1 == AddLog(announced, "Linear integration enabled", "info")
                 l2 == AddLog(l1, "Linear API key present", "info")
             IN  [l2 EXCEPT !.w.linear = TRUE, !.w.pc = "teamStates"]
        ELSE LoopChunk(AddLog(announced, "Linear integration not enabled", "warning"))

\* as AfterTestMode, without the empty check of lines 753-757
AfterTestMode_NoEmptyCheck(s) ==
    LET filtered ==
            IF s.job.onlyNotDoneTasks
            THEN LET kept == SelectSeqBy(s.w.tasks, KeptTasks(s.w.known))
                     l1 == AddLog(s, "Filtering out completed/cancelled tasks...", "info")
                     l2 == IF s.w.known
                           THEN AddLogs(l1, Len(s.w.tasks) - Len(kept), "Filtering out task", "info")
                           ELSE AddLogs(l1, Len(s.w.tasks), "Could not determine status", "warning")
                 IN  AddLog([l2 EXCEPT !.w.tasks = kept], "Filtered out", "info")
            ELSE s
    IN  InitLinear(filtered)

\* lines 711-757: the last only-not-done filter and the empty check
AfterTestMode(s) ==
    LET filtered ==
            IF s.job.onlyNotDoneTasks
            THEN LET kept == SelectSeqBy(s.w.tasks, KeptTasks(s.w.known))
                     l1 == AddLog(s, "Filtering out completed/cancelled tasks...", "info")
                     l2 == IF s.w.known
                           THEN AddLogs(l1, Len(s.w.tasks) - Len(kept), "Filtering out task", "info")
                           ELSE AddLogs(l1, Len(s.w.tasks), "Could not determine status", "warning")
                 IN  AddLog([l2 EXCEPT !.w.tasks = kept], "Filtered out", "info")
            ELSE s
    IN  IF filtered.w.tasks = <<>>
        THEN LET logged == AddLog(filtered, "No tasks found for this project", "error")
                 failed == UpdateJob(logged, [status |-> "failed",
                                              error |-> Some("No tasks found for this project")])
             IN  [failed EXCEPT !.w.pc = "done"]
        ELSE InitLinear(filtered)

\* as TestLoop, going through every task with a description
TestLoop_NoLimit(s) ==
    IF s.w.cand = <<>>
    THEN AfterTestMode(AddLog([s EXCEPT !.w.tasks = s.w.both, !.w.cand = <<>>],
                              "Test mode: limited", "info"))
    ELSE [s EXCEPT !.w.pc = "testCheck"]

\* lines 692-708: the test-mode loop over the tasks with a description
TestLoop(s) ==
    IF s.w.cand = <<>> \/ Len(s.w.both) >= TestSampleSize
    THEN AfterTestMode(AddLog([s EXCEPT !.w.tasks = s.w.both, !.w.cand = <<>>],
                              "Test mode: limited", "info"))
    ELSE [s EXCEPT !.w.pc = "testCheck"]

\* lines 615-690: after the workflow statuses are known (or not)
AfterStatuses(s) ==
    LET found == AddLog(s, "Found workflow statuses", "info")
        first ==
            IF s.job.onlyNotDoneTasks
            THEN LET kept == SelectSeqBy(s.w.tasks, KeptTasks(s.w.known))
                     l1 == AddLog(found, "Excluding completed/cancelled tasks", "info")
                     l2 == AddLogs(l1, Len(s.w.tasks) - Len(kept), "Excluding task", "info")
                     l3 == AddLog([l2 EXCEPT !.w.tasks = kept], "Excluded", "info")
                 IN  UpdateProgress(l3, [totalTasks |-> Len(kept)])
            ELSE found
    IN  IF s.job.testMode
        THEN LET l1 == AddLog(first, "Test mode: filtering", "info")
                 withDesc == SelectSeqBy(first.w.tasks, { t \in TaskKinds : t.desc })
                 l2 == IF s.job.onlyNotDoneTasks
                       THEN AddLog(l1, "Test mode: also filtering out", "info") ELSE l1
                 cand == IF s.job.onlyNotDoneTasks
                         THEN SelectSeqBy(withDesc, KeptTasks(s.w.known)) ELSE withDesc
                 l3 == AddLog(l2, "Found tasks with descriptions", "info")
             IN  TestLoop([l3 EXCEPT !.w.cand = cand, !.w.both = <<>>, !.w.pool = cand])
        ELSE AfterTestMode(first)

\* lines 579-614: the primary list has arrived
AfterTasks(s, p) ==
    LET stored == [s EXCEPT !.w.tasks = p]
        total == UpdateProgress(stored, [totalTasks |-> Len(p)])
        l1 == AddLog(total, "Total tasks found", "success")
        l2 == AddLog(l1, "Fetching workflow statuses for status mapping...", "info")
    IN  IF Len(p) > 0
        THEN [l2 EXCEPT !.w.pc = "fetchStatuses"]
        ELSE AfterStatuses(AddLog(l2, "No tasks found, cannot fetch workflow statuses", "warning"))

\* (variant) every rejected item task reaches the catch block
FirstRejection_Each(wk) == TRUE

\* Promise.all(chunkPromises) rejects on the first rejection only
FirstRejection(wk) == ~wk.rejected

\* an item task has thrown: its promise rejects
Reject(s, message) ==
    IF FirstRejection(s.w)
    THEN JobCatch([s EXCEPT !.w.rejected = TRUE], message)
    ELSE s

\* (variant) the chunk goes on as soon as one item task has returned
Settle_First(s) ==
    IF (\E k \in 1..Len(s.items) : s.items[k].pc = "ok") /\ ~s.w.rejected
    THEN ChunkSettled(s)
    ELSE s

\* an item task has returned its result
Settle(s) ==
    IF (\A k \in 1..Len(s.items) : s.items[k].pc = "ok") /\ ~s.w.rejected
    THEN ChunkSettled(s)
    ELSE s

\* ----------------------------------------------------------------- actions
\* lines 56-90 of the routes: the job literal, createJob, then processExportJob up to
\* its first await
Accept(onlyNotDone, testMode, linear) ==
         LET s0 == [job |-> NewJob(onlyNotDone, testMode, linear), reg |-> TRUE,
                    w |-> InitialWorker, items |-> NoItems,
                    sh |-> <<"pending">>, gh |-> <<>>]
             running == UpdateJob(s0, [status |-> "running"])
             started == UpdateProgress(running, [startTime |-> 1])
             l1 == AddLog(started, "Starting export process...", "info")
             l2 == AddLog(l1, "Fetching tasks for project", "info")
             s1 == [l2 EXCEPT !.w.pc = "fetchTasks"]
         IN  /\ heap' = [x \in {JobId} |-> s1.job]
             /\ jobs' = {JobId}
             /\ w' = s1.w
             /\ items' = s1.items
             /\ statusHist' = s1.sh
             /\ gaugeHist' = s1.gh

\* POST /api/export with a valid body
Submit ==
    /\ JobId \notin DOMAIN heap
    /\ \E onlyNotDone \in BOOLEAN, testMode \in BOOLEAN, linear \in BOOLEAN :
         Accept(onlyNotDone, testMode, linear)
    /\ JobOnly

\* the primary fetchAllPages call of line 572 returns the task list or throws
TasksFetched(projects) ==
    /\ w.pc = "fetchTasks"
    /\ \/ \E p \in projects :
            /\ heap[JobId].importToLinear => Len(p) \in LinearLens
            /\ Commit(AfterTasks(AddLog(Cur, "Fetched tasks page", "info"), p))
       \/ Commit(JobCatch(AddLog(Cur, "Network error fetching tasks", "error"),
                          "Failed after 5 retries"))
    /\ UNCHANGED jobs
    /\ JobOnly

\* lines 590-614: the workflow statuses were fetched (known) or the lookup failed
StatusesFetched ==
    /\ w.pc = "fetchStatuses"
    /\ \E known \in BOOLEAN :
         LET logged == IF known THEN AddLog(Cur, "Fetched workflow statuses page", "info")
                       ELSE AddLog(Cur, "Failed to fetch workflow status", "warning")
         IN  Commit(AfterStatuses([logged EXCEPT !.w.known = known]))
    /\ UNCHANGED jobs
    /\ JobOnly

\* lines 697-704: fetchTaskComments for the next test-mode candidate returns or throws
TestChecked ==
    /\ w.pc = "testCheck"
    /\ \/ \E count \in CommentCounts :
            LET l1 == AddLog(Cur, "Fetched comments page", "info")
                l2 == AddLog(l1, "[DEBUG] Raw comments response", "info")
                pushed == IF count > 0 THEN [l2 EXCEPT !.w.both = Append(@, Head(w.cand))] ELSE l2
                noted == [pushed EXCEPT !.w.checks = Append(@, IF count > 0 THEN "some" ELSE "none")]
            IN  Commit(TestLoop([noted EXCEPT !.w.cand = Tail(@)]))
       \/ LET l1 == AddLog(Cur, "Network error fetching comments", "error")
              l2 == AddLog(l1, "Error checking comments for task", "warning")
          IN  Commit(TestLoop([l2 EXCEPT !.w.cand = Tail(@), !.w.checks = Append(@, "threw")]))
    /\ UNCHANGED jobs
    /\ JobOnly

\* lines 774-780: getTeamStates returns or throws
TeamStatesFetched ==
    /\ w.pc = "teamStates"
    /\ \/ Commit(LoopChunk(AddLog(Cur, "Fetched Linear states for team", "info")))
       \/ Commit(LoopChunk(AddLog(Cur, "Failed to fetch Linear states", "warning")))
    /\ UNCHANGED jobs
    /\ JobOnly

\* as ItemCommentsDone, adding the count to the commentsProcessed the item task saw
\* when it started (the total of the chunks before its own)
ItemCommentsDone_Snapshot(k) ==
    /\ k \in 1..Len(items)
    /\ items[k].pc = "comments"
    /\ \/ \E count \in CommentCounts :
            LET l1 == AddLog(Cur, "Fetched comments page", "info")
                l2 == AddLog(l1, "[DEBUG] Raw comments response", "info")
                seen == Total([n \in 1..Len(w.all) |-> w.all[n].comments])
                counted == UpdateProgress(l2, [commentsProcessed |-> seen + count])
            IN  IF w.linear
                THEN Commit([counted EXCEPT !.items[k].count = count, !.items[k].pc = "linear"])
                ELSE Commit(Settle([counted EXCEPT !.items[k].count = count,
                                                   !.items[k].pc = "ok"]))
       \/ LET l1 == AddLog(Cur, "Network error fetching comments", "error")
          IN  Commit(Reject([l1 EXCEPT !.items[k].pc = "rejected", !.items[k].threw = "comments"],
                            "Failed after 5 retries"))
    /\ UNCHANGED jobs
    /\ JobOnly

\* lines 797-803: fetchTaskComments of item k returns or throws
ItemCommentsDone(k) ==
    /\ k \in 1..Len(items)
    /\ items[k].pc = "comments"
    /\ \/ \E count \in CommentCounts :
            LET l1 == AddLog(Cur, "Fetched comments page", "info")
                l2 == AddLog(l1, "[DEBUG] Raw comments response", "info")
                counted == UpdateProgress(l2, [commentsProcessed |->
                                                  l2.job.progress.commentsProcessed + count])
            IN  IF w.linear
                THEN Commit([counted EXCEPT !.items[k].count = count, !.items[k].pc = "linear"])
                ELSE Commit(Settle([counted EXCEPT !.items[k].count = count,
                                                   !.items[k].pc = "ok"]))
       \/ LET l1 == AddLog(Cur, "Network error fetching comments", "error")
          IN  Commit(Reject([l1 EXCEPT !.items[k].pc = "rejected", !.items[k].threw = "comments"],
                            "Failed after 5 retries"))
    /\ UNCHANGED jobs
    /\ JobOnly

\* lines 806-949: the replication of item k ends: the issue was created, createLinearIssue
\* returned null, or a downstream call threw and the item's catch took it
ItemLinearDone(k) ==
    /\ k \in 1..Len(items)
    /\ items[k].pc = "linear"
    /\ \/ LET l1 == AddLog([Cur EXCEPT !.w.created = @ + 1], "Processed Linear issue", "success")
          IN  Commit(Settle([l1 EXCEPT !.items[k].pc = "ok",
                                       !.items[k].issueId = TRUE,
                                       !.items[k].shouldArchive = IsDoneTask(w.known, items[k].task)]))
       \/ Commit(Settle([AddLog(Cur, "Failed to create Linear issue", "error")
                            EXCEPT !.items[k].pc = "ok"]))
       \/ Commit(Settle([AddLog(Cur, "Error creating Linear issue", "error")
                            EXCEPT !.items[k].pc = "ok", !.items[k].threw = "linear"]))
    /\ UNCHANGED jobs
    /\ JobOnly

\* lines 961-969: archiveIssues returns or throws
ArchiveDone ==
    /\ w.pc = "archive"
    /\ \/ Commit(AfterArchive(AddLog(Cur, "Batch archived", "info")))
       \/ Commit(AfterArchive(AddLog(Cur, "Batch archiving failed", "warning")))
    /\ UNCHANGED jobs
    /\ JobOnly

\* line 984: the pause between two chunks ends; the loop steps to the next chunk
ChunkSleepDone ==
    /\ w.pc = "chunkSleep"
    /\ Commit(LoopChunk([Cur EXCEPT !.w.i = @ + concurrency]))
    /\ UNCHANGED jobs
    /\ JobOnly

\* POST /api/export/:jobId/stop -> stopJob
StopJob ==
    /\ JobId \in jobs
    /\ heap' = [heap EXCEPT ![JobId].shouldStop = TRUE]
    /\ UNCHANGED <<jobs, w, items, statusHist, gaugeHist>>
    /\ JobOnly

\* the retention sweep: deletes the job when it is older than 24 hours or flagged stopped
Sweep ==
    /\ JobId \in jobs
    /\ \E expired \in BOOLEAN :
         /\ expired \/ heap[JobId].shouldStop
         /\ jobs' = jobs \ {JobId}
    /\ UNCHANGED <<heap, w, items, statusHist, gaugeHist>>
    /\ JobOnly

JobInit ==
    /\ swept = FALSE
    /\ heap = [x \in {} |-> 0]
    /\ jobs = {}
    /\ w = InitialWorker
    /\ items = NoItems
    /\ statusHist = <<>>
    /\ gaugeHist = <<>>

\* ================================================ the paginated fetch engine
ERROR_COOLDOWN_MS == 120000
PageRetries == 5
PagePauseMs == 300

MaxItems == 3          \* most records the paged resource holds
MaxCooldowns == 5      \* cooldown periods the clock runs for
\* time that passes in one step of the clock while requests are in flight
RequestMs == ERROR_COOLDOWN_MS \div 2

PageSizes == {1, 2}
FetcherIds == {1, 2}

\* Date.now() is far past the epoch: a lastErrorTime of 0 never delays the first call
StartTime == ERROR_COOLDOWN_MS
MaxTime == StartTime + MaxCooldowns * ERROR_COOLDOWN_MS
\* the clock of the concurrent calls runs for two periods less
MaxTimeBoth == MaxTime - 2 * ERROR_COOLDOWN_MS

\* ceil(a / b)
PagesOf(a, b) == (a + b - 1) \div b

\* the upstream: records 1..items, served in pages of the requested size
TotalPages(up) == PagesOf(up.items, up.size)
PageData(up, n) ==
    [k \in 1..(Min(n * up.size, up.items) - Min((n - 1) * up.size, up.items)) |->
        (n - 1) * up.size + k]
AllData(up) == [k \in 1..up.items |-> k]

\* data.meta?.total_pages || 1
ReportedTotal(up) == IF TotalPages(up) = 0 THEN 1 ELSE TotalPages(up)

IdleFetcher ==
    [pc |-> "idle", page |-> 0, total |-> 0, retries |-> 0, data |-> <<>>, wakeAt |-> 0,
     attempts |-> 0, fails |-> 0, failedAt |-> -1, exhausted |-> {}, logged |-> "none",
     asked |-> <<>>, got |-> {}]
OffFetcher == [IdleFetcher EXCEPT !.pc = "off"]

\* history of a call: asked[p] is the number of requests issued for page p, got the
\* pages an attempt has succeeded for
Asked(fr) ==
    [fr EXCEPT !.pc = "request", !.attempts = @ + 1,
               !.asked = IF fr.page <= Len(@) THEN [@ EXCEPT ![fr.page] = @ + 1]
                         ELSE Append(@, 1)]

\* (variant) an attempt that goes to fetch() without the cooldown gate
EnterAttempt_NoGate(fr, errTime) == Asked(fr)

\* waitForCooldown followed by fetch(fullUrl): the call sleeps for what is left of the
\* cooldown, computed once from lastErrorTime, or goes on to issue the request
EnterAttempt(fr, errTime) ==
    IF now - errTime < ERROR_COOLDOWN_MS
    THEN [fr EXCEPT !.pc = "cooldown", !.wakeAt = now + (ERROR_COOLDOWN_MS - (now - errTime))]
    ELSE Asked(fr)

\* the head of the outer loop for the page fr.page
NewPage(fr, errTime) ==
    EnterAttempt([fr EXCEPT !.retries = PageRetries, !.attempts = 0, !.fails = 0,
                            !.failedAt = -1], errTime)

\* lines 104-111: the inner loop has ended without an error leaving the function
NextPage(fr) ==
    IF fr.page + 1 <= fr.total
    THEN [fr EXCEPT !.page = @ + 1, !.pc = "pace", !.wakeAt = now + PagePauseMs]
    ELSE [fr EXCEPT !.page = @ + 1, !.pc = "returned"]

\* the history of requests: a request is issued when a call reaches fetch()
Issued(old, new) == new.pc = "request" /\ old.pc # "request"
NoteRequest(old, new, failure) ==
    lastReq' = IF Issued(old, new)
               THEN [at |-> now, after |-> failure, by |-> "fetchAllPages"]
               ELSE lastReq

\* (variant) a failure that does not use up a retry
CountFailure_NoCount(fr, message) ==
    [fr EXCEPT !.fails = @ + 1, !.failedAt = now, !.logged = message]

\* an attempt for the page fr.page has failed: retries--, and the page is exhausted
\* when that was the last of its PageRetries attempts
CountFailure(fr, message) ==
    [fr EXCEPT !.retries = @ - 1, !.fails = @ + 1, !.failedAt = now, !.logged = message,
               !.exhausted = IF fr.fails + 1 = PageRetries THEN @ \cup {fr.page} ELSE @]

FetchOnly == UNCHANGED <<jobVars, replVars, httpVars, regVars, gqlVars, csvVars, callVars>>

\* fetchAllPages is called: lines 44-57
FetchStart(id) ==
    /\ fetchers[id].pc = "idle"
    /\ LET fr == NewPage([IdleFetcher EXCEPT !.page = 1, !.total = 1], lastErrorTime)
       IN  /\ fetchers' = [fetchers EXCEPT ![id] = fr]
           /\ NoteRequest(fetchers[id], fr, failAt)
    /\ UNCHANGED <<now, lastErrorTime, upstream, person, failAt>>
    /\ FetchOnly

\* the timer of waitForCooldown fires: the request is issued without a second look
\* at lastErrorTime
CooldownDone(id) ==
    /\ fetchers[id].pc = "cooldown"
    /\ now >= fetchers[id].wakeAt
    /\ LET fr == Asked(fetchers[id])
       IN  /\ fetchers' = [fetchers EXCEPT ![id] = fr]
           /\ NoteRequest(fetchers[id], fr, failAt)
    /\ UNCHANGED <<now, lastErrorTime, upstream, person, failAt>>
    /\ FetchOnly

\* lines 77-87: a 2xx response with the page and the total page count
ResponseOk(id) ==
    /\ fetchers[id].pc = "request"
    /\ LET got == [fetchers[id] EXCEPT !.data = @ \o PageData(upstream, fetchers[id].page),
                                      !.total = ReportedTotal(upstream),
                                      !.got = @ \cup {fetchers[id].page}]
       IN  fetchers' = [fetchers EXCEPT ![id] = NextPage(got)]
    /\ UNCHANGED <<now, lastErrorTime, upstream, person, failAt, lastReq>>
    /\ FetchOnly

\* lines 61-75 and 88-101: a non-2xx response.  The error thrown at line 70 when the
\* retries are used up is thrown inside the try block, so the catch of line 88 takes
\* it, counts retries down once more and throws only if that leaves exactly 0
ResponseHttp(id) ==
    /\ fetchers[id].pc = "request"
    /\ LET fr == fetchers[id]
           counted == CountFailure(fr, "API error")
           after ==
               IF counted.retries = 0
               THEN LET caught == [counted EXCEPT !.retries = @ - 1,
                                                  !.logged = "Network error"]
                    IN  IF caught.retries = 0
                        THEN [caught EXCEPT !.pc = "threw"]
                        ELSE NextPage(caught)
               ELSE EnterAttempt(counted, now)
       IN  /\ fetchers' = [fetchers EXCEPT ![id] = after]
           /\ NoteRequest(fr, after, now)
    /\ lastErrorTime' = now
    /\ failAt' = now
    /\ UNCHANGED <<now, upstream, person>>
    /\ FetchOnly

\* lines 88-101: fetch() or response.json() threw
ResponseNet(id) ==
    /\ fetchers[id].pc = "request"
    /\ LET fr == fetchers[id]
           counted == CountFailure(fr, "Network error")
           after ==
               IF counted.retries = 0
               THEN [counted EXCEPT !.pc = "threw"]
               ELSE EnterAttempt(counted, now)
       IN  /\ fetchers' = [fetchers EXCEPT ![id] = after]
           /\ NoteRequest(fr, after, now)
    /\ lastErrorTime' = now
    /\ failAt' = now
    /\ UNCHANGED <<now, upstream, person>>
    /\ FetchOnly

\* line 107: the pause between two pages ends; the loop goes on to the next page
PaceDone(id) ==
    /\ fetchers[id].pc = "pace"
    /\ now >= fetchers[id].wakeAt
    /\ LET fr == NewPage(fetchers[id], lastErrorTime)
       IN  /\ fetchers' = [fetchers EXCEPT ![id] = fr]
           /\ NoteRequest(fetchers[id], fr, failAt)
    /\ UNCHANGED <<now, lastErrorTime, upstream, person, failAt>>
    /\ FetchOnly

\* fetchPersonDetails, lines 137-141: the request is issued with no cooldown gate
PersonStart ==
    /\ person = "idle"
    /\ person' = "request"
    /\ lastReq' = [at |-> now, after |-> failAt, by |-> "fetchPersonDetails"]
    /\ UNCHANGED <<now, lastErrorTime, upstream, fetchers, failAt>>
    /\ FetchOnly

\* lines 142-156: the lookup succeeds, or fails (non-2xx or exception) and yields
\* "Unknown"; lastErrorTime is not touched
PersonDone ==
    /\ person = "request"
    /\ \/ person' = "done" /\ UNCHANGED failAt
       \/ person' = "unknown" /\ failAt' = now
    /\ UNCHANGED <<now, lastErrorTime, upstream, fetchers, lastReq>>
    /\ FetchOnly

\* time passes: to the next timer that is due, or by the time a request takes
Sleepers == { id \in FetcherIds : fetchers[id].pc \in {"cooldown", "pace"} }
Tick(limit) ==
    /\ \E t \in { fetchers[id].wakeAt : id \in Sleepers } \cup { now + RequestMs } :
         /\ t > now
         /\ t <= limit
         /\ now' = t
    /\ UNCHANGED <<lastErrorTime, upstream, fetchers, person, failAt, lastReq>>
    /\ FetchOnly

FetchOff ==
    /\ now = StartTime
    /\ lastErrorTime = 0
    /\ upstream = [items |-> 0, size |-> 1]
    /\ fetchers = [id \in FetcherIds |-> OffFetcher]
    /\ person = "off"
    /\ failAt = -1
    /\ lastReq = [at |-> 0, after |-> -1, by |-> "none"]

\* one fetchAllPages call over a resource of up to MaxItems records
FetchInit ==
    /\ now = StartTime
    /\ lastErrorTime = 0
    /\ upstream \in [items : 0..MaxItems, size : PageSizes]
    /\ fetchers = [id \in FetcherIds |-> IF id = 1 THEN IdleFetcher ELSE OffFetcher]
    /\ person = "off"
    /\ failAt = -1
    /\ lastReq = [at |-> 0, after |-> -1, by |-> "none"]

\* two concurrent calls and a person lookup over a one-page resource
CooldownInit ==
    /\ now = StartTime
    /\ lastErrorTime = 0
    /\ upstream \in [items : 0..1, size : {1}]
    /\ fetchers = [id \in FetcherIds |-> IdleFetcher]
    /\ person = "idle"
    /\ failAt = -1
    /\ lastReq = [at |-> 0, after |-> -1, by |-> "none"]

FetchNext ==
    \/ \E id \in FetcherIds : FetchStart(id)
    \/ \E id \in FetcherIds : CooldownDone(id)
    \/ \E id \in FetcherIds : ResponseOk(id)
    \/ \E id \in FetcherIds : ResponseHttp(id)
    \/ \E id \in FetcherIds : ResponseNet(id)
    \/ \E id \in FetcherIds : PaceDone(id)
    \/ Tick(MaxTime)

CooldownNext ==
    \/ \E id \in FetcherIds : FetchStart(id)
    \/ \E id \in FetcherIds : CooldownDone(id)
    \/ \E id \in FetcherIds : ResponseOk(id)
    \/ \E id \in FetcherIds : ResponseHttp(id)
    \/ \E id \in FetcherIds : ResponseNet(id)
    \/ Tick(MaxTimeBoth)
    \/ PersonStart
    \/ PersonDone

\* ============================================= replication into Linear
MaxRuns == 3           \* replication runs in one behaviour
MaxSeed == 2           \* issues the team holds before the first run

\* task ids are decimal strings; an id may be a prefix of another
TaskIds == { <<"1">>, <<"1", "2">>, <<"1", "3">> }

\* line 812: the canonical origin URL of a task
TaskUrl(id) == <<"https://app.productive.io/org/tasks/">> \o id

\* line 813: the description of the issue ends with the link line
Description(id) == <<"text", "Productive task link: ">> \o TaskUrl(id) \o <<"\n">>

\* the filter description: { contains: taskUrl }
Contains(d, u) == \E i \in 0..(Len(d) - Len(u)) : SubSeq(d, i + 1, i + Len(u)) = u

\* an issue of the team; origin is history: the task it was created for
Issue(n, id) == [id |-> n, description |-> Description(id), origin |-> id, deleted |-> FALSE]

\* the issues findIssueByTaskUrl's query returns
Matches(taskUrl) ==
    { n \in 1..Len(target) : ~target[n].deleted /\ Contains(target[n].description, taskUrl) }

\* the issues earlier exports left: one per task, for up to MaxSeed tasks
RECURSIVE Seeds(_)
Seeds(n) ==
    IF n = 0 THEN { <<>> }
    ELSE Seeds(n - 1) \cup
         { Append(q, Issue(Len(q) + 1, id)) :
             q \in { p \in Seeds(n - 1) : Len(p) = n - 1 }, id \in TaskIds }
SeedStores == { q \in Seeds(MaxSeed) : \A i, j \in 1..Len(q) : i # j => q[i].origin # q[j].origin }

IdleRun == [pc |-> "idle", task |-> <<>>, check |-> FALSE, found |-> 0, clean |-> TRUE]

ReplOnly == UNCHANGED <<jobVars, fetchVars, httpVars, regVars, gqlVars, csvVars, callVars>>

\* the run has ended: by the end of the try block or in the item's catch
EndRun(r) ==
    /\ repl' = IdleRun
    /\ runs' = Append(runs, [task |-> r.task, check |-> r.check, clean |-> r.clean])

\* lines 806-826: replication of one task starts; with the duplicate check it awaits
\* findIssueByTaskUrl, without it createLinearIssue
RunStart ==
    /\ repl.pc = "idle"
    /\ Len(runs) < MaxRuns
    /\ \E id \in TaskIds, check \in BOOLEAN :
         repl' = [IdleRun EXCEPT !.pc = IF check THEN "find" ELSE "create",
                                 !.task = id, !.check = check]
    /\ UNCHANGED <<target, runs, seeded>>
    /\ ReplOnly

\* findIssueByTaskUrl returns issues[0] of the matching issues (in the order the API
\* lists them), null when there is none, or throws
FindDone ==
    /\ repl.pc = "find"
    /\ \/ /\ Matches(TaskUrl(repl.task)) = {}
          /\ repl' = [repl EXCEPT !.pc = "create"]
          /\ UNCHANGED runs
       \/ /\ \E n \in Matches(TaskUrl(repl.task)) :
               repl' = [repl EXCEPT !.pc = "delete", !.found = n]
          /\ UNCHANGED runs
       \/ EndRun([repl EXCEPT !.clean = FALSE])
    /\ UNCHANGED <<target, seeded>>
    /\ ReplOnly

\* deleteIssue(existingIssue.id): the issue is deleted, the API answers success: false
\* (the result is not looked at), or the call throws
DeleteDone ==
    /\ repl.pc = "delete"
    /\ \/ /\ target' = [target EXCEPT ![repl.found].deleted = TRUE]
          /\ repl' = [repl EXCEPT !.pc = "create"]
          /\ UNCHANGED runs
       \/ /\ repl' = [repl EXCEPT !.pc = "create", !.clean = FALSE]
          /\ UNCHANGED <<target, runs>>
       \/ /\ EndRun([repl EXCEPT !.clean = FALSE])
          /\ UNCHANGED target
    /\ UNCHANGED seeded
    /\ ReplOnly

\* createLinearIssue: the issue is created, the API returns no issue, or the call throws
CreateDone ==
    /\ repl.pc = "create"
    /\ \/ /\ target' = Append(target, Issue(Len(target) + 1, repl.task))
          /\ EndRun(repl)
       \/ /\ EndRun([repl EXCEPT !.clean = FALSE])
          /\ UNCHANGED target
    /\ UNCHANGED seeded
    /\ ReplOnly

\* ---------------------------------------------------------- graphqlRequest
\* One call of graphqlRequest (src/unnamed/part_003:3-52) against a clock.
\* sent: history, the times of its HTTP requests; seen: history, the rate-limited
\* responses with the times they arrived.
DEFAULT_RESET_MS == 180000
MaxGqlTicks == 5
GqlStepMs == DEFAULT_RESET_MS \div 3
MaxGqlTime == StartTime + MaxGqlTicks * GqlStepMs

IdleCall ==
    [pc |-> "idle", retryCount |-> 0, wakeAt |-> 0, result |-> "none",
     sent |-> <<>>, seen |-> <<>>]

\* a response: HTTP status, what json.errors holds ("none": no errors; "other": errors
\* without a rate-limit mark; "code", "message": an error marked RATELIMITED or with
\* the rate-limit message; "unparsable": a body res.json() rejects), the header
\* X-RateLimit-Requests-Reset (-1: absent) and the duration of the error's
\* rateLimitResult (0: absent)
GqlResponses ==
    [status : {200, 400, 429},
     errors : {"none", "other", "code", "message", "unparsable"},
     reset : {-1, GqlStepMs, StartTime + 2 * GqlStepMs},
     duration : {0, GqlStepMs}]

\* lines 16-21: json.errors has an entry that is rate limited
RateLimited(r) ==
    /\ r.errors \in {"other", "code", "message"}
    /\ r.errors \in {"code", "message"} \/ r.status = 429

\* lines 24-37
ResetDuration(r, at) ==
    IF r.reset # -1 THEN Max(0, r.reset - at)
    ELSE IF r.duration # 0 THEN r.duration ELSE DEFAULT_RESET_MS

\* as MayRetry, allowing a second retry
MayRetry_Twice(retryCount) == retryCount < 2

\* line 23: only retry once for rate limits
MayRetry(retryCount) == retryCount < 1

GqlOnly == UNCHANGED <<jobVars, lastErrorTime, upstream, fetchers, person, failAt, lastReq,
                       replVars, httpVars, regVars, csvVars, callVars>>

\* graphqlRequest is called: fetch(), line 4
GqlCall ==
    /\ gql.pc = "idle"
    /\ gql' = [gql EXCEPT !.pc = "request", !.sent = Append(@, now)]
    /\ UNCHANGED now
    /\ GqlOnly

\* the response arrives: lines 13-51
GqlResponse ==
    /\ gql.pc = "request"
    /\ \E r \in GqlResponses :
         gql' =
           IF r.errors = "unparsable"
           THEN [gql EXCEPT !.pc = "done", !.result = "error"]
           ELSE IF r.errors = "none"
           THEN [gql EXCEPT !.pc = "done", !.result = "data"]
           ELSE IF RateLimited(r) /\ MayRetry(gql.retryCount)
           THEN [gql EXCEPT !.pc = "wait", !.wakeAt = now + ResetDuration(r, now),
                            !.seen = Append(@, [r |-> r, at |-> now])]
           ELSE [gql EXCEPT !.pc = "done", !.result = "error",
                            !.seen = IF RateLimited(r)
                                     THEN Append(@, [r |-> r, at |-> now]) ELSE @]
    /\ UNCHANGED now
    /\ GqlOnly

\* the timer of line 42 fires and the request is sent again, line 45
GqlWake ==
    /\ gql.pc = "wait"
    /\ now >= gql.wakeAt
    /\ gql' = [gql EXCEPT !.pc = "request", !.retryCount = @ + 1,
                          !.sent = Append(@, now)]
    /\ UNCHANGED now
    /\ GqlOnly

GqlTick ==
    /\ now + GqlStepMs <= MaxGqlTime
    /\ now' = now + GqlStepMs
    /\ UNCHANGED gql
    /\ GqlOnly

GqlNext ==
    \/ GqlCall
    \/ GqlResponse
    \/ GqlWake
    \/ GqlTick

ReplOff ==
    /\ gql = IdleCall
    /\ target = <<>>
    /\ seeded = 0
    /\ repl = IdleRun
    /\ runs = <<>>

ReplInit ==
    /\ gql = IdleCall
    /\ target \in SeedStores
    /\ seeded = Len(target)
    /\ repl = IdleRun
    /\ runs = <<>>

ReplNext ==
    \/ RunStart
    \/ FindDone
    \/ DeleteDone
    \/ CreateDone

\* ======================================================= the HTTP handlers
\* a string field of a request body: absent, empty or set
FieldVals == {"absent", "", "x"}
Missing(v) == v \in {"absent", ""}

\* the bodies of POST /api/export
Bodies ==
    [apiToken : FieldVals, organizationId : {"absent", "x"}, projectId : {"", "x"},
     importToLinear : {"absent", "false", "true"},
     linearApiKey : {"", "x"}, linearTeamId : FieldVals,
     onlyNotDoneTasks : BOOLEAN, testMode : BOOLEAN]

\* the task lists of the jobs the handlers are exercised on
ShortProjects == UNION { [1..n -> { t \in TaskKinds : t.desc }] : n \in 0..1 }

\* n tells a request from the one handled before it
NoRequest == [kind |-> "none", id |-> "", body |-> <<>>, n |-> 0]
NoResponse == [status |-> 0, error |-> {}, data |-> None]

\* the fields createExportJobSchema requires as non-empty strings and that fail
RequiredMissing(body) ==
    { f \in {"apiToken", "organizationId", "projectId"} : Missing(body[f]) }

\* the fields of the request schema the handler reads: the three required strings and
\* the optional fields of the Linear import and of the filters
SchemaFields ==
    {"apiToken", "organizationId", "projectId", "importToLinear", "linearApiKey",
     "linearTeamId", "onlyNotDoneTasks", "testMode"}

\* createExportJobSchema.parse(req.body): throws when a required field fails, and
\* yields the fields of the schema otherwise
ParseFails(body) == RequiredMissing(body) # {}
Validated(body) == [f \in SchemaFields \cap DOMAIN body |-> body[f]]

\* as LinearCheck, without the test of the team id
LinearCheck_KeyOnly(validated) ==
    IF validated.importToLinear = "true" /\ Missing(validated.linearApiKey)
    THEN {"linearApiKey"}
    ELSE {}

\* lines 46-54: the additional validation for a Linear import; the set of fields the
\* thrown message names (empty: nothing thrown)
LinearCheck(validated) ==
    IF validated.importToLinear = "true"
    THEN IF Missing(validated.linearApiKey) THEN {"linearApiKey"}
         ELSE IF Missing(validated.linearTeamId) THEN {"linearTeamId"}
         ELSE {}
    ELSE {}

HttpOnly == UNCHANGED <<fetchVars, replVars, regVars, gqlVars, csvVars, callVars>>

\* POST /api/export, lines 35-94
Post ==
    /\ JobId \notin DOMAIN heap
    /\ \E body \in Bodies :
         /\ req' = [kind |-> "export", id |-> "", body |-> body, n |-> 1 - req.n]
         /\ IF ParseFails(body)
            THEN /\ resp' = [status |-> 400, error |-> RequiredMissing(body), data |-> None]
                 /\ UNCHANGED jobVars
            ELSE IF LinearCheck(Validated(body)) # {}
            THEN /\ resp' = [status |-> 400, error |-> LinearCheck(Validated(body)),
                              data |-> None]
                 /\ UNCHANGED jobVars
            ELSE /\ resp' = [status |-> 200, error |-> {}, data |-> Some(JobId)]
                 /\ Accept(Validated(body).onlyNotDoneTasks, Validated(body).testMode,
                           Validated(body).importToLinear = "true")
    /\ UNCHANGED stream
    /\ HttpOnly

\* as DownloadResponse, sending whatever the job holds as its CSV result
DownloadResponse_NoStatus(id) ==
    IF id \notin jobs
    THEN [status |-> 404, error |-> {"Job not found"}, data |-> None]
    ELSE [status |-> 200, error |-> {}, data |-> heap[id].csvData]

\* the answer of the download handler, lines 203-220
DownloadResponse(id) ==
    IF id \notin jobs
    THEN [status |-> 404, error |-> {"Job not found"}, data |-> None]
    ELSE IF heap[id].status # "completed" \/ heap[id].csvData = None
    THEN [status |-> 400, error |-> {"Export not ready yet"}, data |-> None]
    ELSE [status |-> 200, error |-> {}, data |-> heap[id].csvData]

\* GET /api/export/:jobId/download, lines 202-221
Download ==
    /\ \E id \in {JobId, "unknown"} :
         /\ req' = [kind |-> "download", id |-> id, body |-> <<>>, n |-> 1 - req.n]
         /\ resp' = DownloadResponse(id)
    /\ UNCHANGED <<jobVars, stream>>
    /\ HttpOnly

\* (variant) a snapshot that serialises the job object as it is
JobView_Whole(job) == job

\* part_006:114-120, 133-139, 168-174: the object literal { id, status, logs, progress,
\* error } as JSON.stringify writes it: a property whose value is undefined is left out
JobView(job) ==
    [f \in {"id", "status", "logs", "progress"} \cup
            (IF job.error = None THEN {} ELSE {"error"}) |->
        IF f = "error" THEN job.error[1] ELSE job[f]]

\* lines 112-121 and 131-140: a message of the event stream of a job in the registry
ViewEvents ==
    /\ JobId \in jobs
    /\ \E type \in {"init", "update"} :
         /\ req' = [kind |-> "events", id |-> JobId, body |-> <<>>, n |-> 1 - req.n]
         /\ resp' = [status |-> 200, error |-> {},
                     data |-> Some([type |-> type, job |-> JobView(heap[JobId])])]
    /\ UNCHANGED <<jobVars, stream>>
    /\ HttpOnly

\* lines 158-175: GET /api/export/:jobId/status
StatusResponse(id) ==
    IF id \notin jobs
    THEN [status |-> 404, error |-> {"Job not found"}, data |-> None]
    ELSE [status |-> 200, error |-> {}, data |-> Some(JobView(heap[id]))]

ViewStatus ==
    /\ \E id \in {JobId, "unknown"} :
         /\ req' = [kind |-> "status", id |-> id, body |-> <<>>, n |-> 1 - req.n]
         /\ resp' = StatusResponse(id)
    /\ UNCHANGED <<jobVars, stream>>
    /\ HttpOnly

\* the observers of a job next to its worker
ViewNext ==
    \/ Submit
    \/ ViewEvents
    \/ ViewStatus
    \/ TasksFetched(ShortProjects)
    \/ StatusesFetched
    \/ TestChecked
    \/ TeamStatesFetched
    \/ \E k \in 1..concurrency : ItemCommentsDone(k)
    \/ \E k \in 1..concurrency : ItemLinearDone(k)
    \/ ArchiveDone
    \/ StopJob
    \/ Sweep

\* the event stream, lines 97-156.  interval and timeout are the two timers of the
\* handler; last is the message written last; updates counts the update messages that
\* carried a terminal status and later the messages written after the first of them
\* (both counted up to MaxCount); endedBy is the callback that ended the response
MaxCount == 2
NoStream ==
    [pc |-> "none", interval |-> FALSE, timeout |-> FALSE, last |-> <<>>,
     updates |-> 0, later |-> 0, endedBy |-> "none"]

Snapshot(type, id) == <<type, heap[id].status>>

Written(st, msg) ==
    [st EXCEPT !.last = msg,
               !.later = IF st.updates > 0 THEN Min(@ + 1, MaxCount) ELSE @,
               !.updates = IF msg[1] = "update" /\ msg[2] \in {"completed", "failed"}
                           THEN Min(@ + 1, MaxCount) ELSE @]

\* lines 97-122: 404 for an unknown job (no stream), else the headers and the init
\* message, and the poll timer is set
StreamOpen ==
    /\ stream.pc = "none"
    /\ JobId \in jobs
    /\ stream' = [Written(stream, Snapshot("init", JobId)) EXCEPT
                     !.pc = "open", !.interval = TRUE]
    /\ UNCHANGED <<jobVars, req, resp>>
    /\ HttpOnly

\* as PollTick, leaving the poll timer set when the job is completed or failed
PollTick_KeepsPolling ==
    /\ stream.interval
    /\ stream' = IF JobId \notin jobs
                 THEN [stream EXCEPT !.interval = FALSE, !.pc = "closed", !.endedBy = "tick"]
                 ELSE Written(stream, Snapshot("update", JobId))
    /\ UNCHANGED <<jobVars, req, resp>>
    /\ HttpOnly

\* as PollTick, ending the response of a job that is gone without clearing the timer
PollTick_NoClear ==
    /\ stream.interval
    /\ stream' =
         IF JobId \notin jobs
         THEN [stream EXCEPT !.pc = "closed", !.endedBy = "tick"]
         ELSE IF heap[JobId].status \in {"completed", "failed"}
         THEN [Written(stream, Snapshot("update", JobId)) EXCEPT
                 !.interval = FALSE, !.timeout = TRUE]
         ELSE Written(stream, Snapshot("update", JobId))
    /\ UNCHANGED <<jobVars, req, resp>>
    /\ HttpOnly

\* lines 125-149: a tick of the poll timer
PollTick ==
    /\ stream.interval
    /\ stream' =
         IF JobId \notin jobs
         THEN [stream EXCEPT !.interval = FALSE, !.pc = "closed", !.endedBy = "tick"]
         ELSE IF heap[JobId].status \in {"completed", "failed"}
         THEN [Written(stream, Snapshot("update", JobId)) EXCEPT
                 !.interval = FALSE, !.timeout = TRUE]
         ELSE Written(stream, Snapshot("update", JobId))
    /\ UNCHANGED <<jobVars, req, resp>>
    /\ HttpOnly

\* line 147: the timeout set by the last tick fires, res.end()
CloseTimer ==
    /\ stream.timeout
    /\ stream' = [stream EXCEPT !.timeout = FALSE, !.pc = "closed",
                                 !.endedBy = IF stream.pc = "closed" THEN @ ELSE "timeout"]
    /\ UNCHANGED <<jobVars, req, resp>>
    /\ HttpOnly

\* as ClientClose, ending the response without clearing the poll timer
ClientClose_KeepsTimer ==
    /\ stream.pc = "open"
    /\ stream' = [stream EXCEPT !.pc = "closed", !.endedBy = "client"]
    /\ UNCHANGED <<jobVars, req, resp>>
    /\ HttpOnly

\* lines 152-155: the client disconnects
ClientClose ==
    /\ stream.pc = "open"
    /\ stream' = [stream EXCEPT !.interval = FALSE, !.pc = "closed", !.endedBy = "client"]
    /\ UNCHANGED <<jobVars, req, resp>>
    /\ HttpOnly

HttpOff ==
    /\ stream = NoStream
    /\ req = NoRequest
    /\ resp = NoResponse

\* one observer of a job from its submission to the sweep
StreamNext ==
    \/ Submit
    \/ StreamOpen
    \/ PollTick
    \/ CloseTimer
    \/ ClientClose
    \/ TasksFetched(ShortProjects)
    \/ StatusesFetched
    \/ TestChecked
    \/ TeamStatesFetched
    \/ \E k \in 1..concurrency : ItemCommentsDone(k)
    \/ \E k \in 1..concurrency : ItemLinearDone(k)
    \/ ArchiveDone
    \/ StopJob
    \/ Sweep

ApiNext ==
    \/ Post
    \/ Download
    \/ TasksFetched(ShortProjects)
    \/ StatusesFetched
    \/ TestChecked
    \/ TeamStatesFetched
    \/ \E k \in 1..concurrency : ItemCommentsDone(k)
    \/ \E k \in 1..concurrency : ItemLinearDone(k)
    \/ ArchiveDone
    \/ StopJob
    \/ Sweep

\* ------------------------------------------------------------- generateCSV
\* Text is a sequence of characters.  Comma, Quote and Newline stand for the three
\* characters escapeCSV looks for; every other character is an ordinary one.
MaxLen == 2
Comma == "comma"
Quote == "quote"
Newline == "newline"
Alphabet == {"a", Comma, Quote, Newline}
Strings == UNION { [1..n -> Alphabet] : n \in 0..MaxLen }

RECURSIVE Doubled(_)
\* str.replace(/"/g, '""')
Doubled(str) ==
    IF str = <<>> THEN <<>>
    ELSE (IF Head(str) = Quote THEN <<Quote, Quote>> ELSE <<Head(str)>>) \o Doubled(Tail(str))

Includes(str, c) == \E i \in 1..Len(str) : str[i] = c

\* (variant) escapeCSV that wraps the value without doubling its quotes
escapeCSV_NoDoubling(value) ==
    IF Includes(value, Comma) \/ Includes(value, Quote) \/ Includes(value, Newline)
    THEN <<Quote>> \o value \o <<Quote>>
    ELSE value

\* lines 1015-1022 (null and undefined give the empty string, as '' does)
escapeCSV(value) ==
    IF Includes(value, Comma) \/ Includes(value, Quote) \/ Includes(value, Newline)
    THEN <<Quote>> \o Doubled(value) \o <<Quote>>
    ELSE value

RECURSIVE Join(_, _)
\* Array.prototype.join
Join(parts, sep) ==
    IF parts = <<>> THEN <<>>
    ELSE IF Len(parts) = 1 THEN parts[1]
    ELSE parts[1] \o <<sep>> \o Join(Tail(parts), sep)

\* lines 1024-1055: the thirty column names, each a text of one ordinary character
headers ==
    [c \in 1..30 |-> << <<"Title", "Task list", "Status", "Due date", "Assignee",
        "Last activity", "Creator", "Date", "Date closed", "Date created", "Dependencies",
        "Description", "Followers", "Last actor", "Overdue", "Parent task",
        "Planned date", "Pricing type", "Private", "Repeat schedule", "Start date",
        "State", "Workflow status", "Subtasks count", "Tags", "Task number",
        "Visibility", "Todos", "Type", "Comments">>[c] >>]

\* lines 1061-1092: the values of a row, for a task whose attributes are its title and
\* its description and which has no relationships: the other columns are empty or hold
\* the defaults 'No', 'Open', 0, 'Public', '0/0' and 'Milestone'
Values(task) ==
    [c \in 1..30 |->
        CASE c = 1 -> task.title
          [] c = 12 -> task.description
          [] c = 15 -> <<"No">>
          [] c = 22 -> <<"Open">>
          [] c = 24 -> <<"0">>
          [] c = 27 -> <<"Public">>
          [] c = 28 -> <<"0/0">>
          [] c = 29 -> <<"Milestone">>
          [] c = 30 -> task.comments
          [] OTHER -> <<>>]

\* lines 1057-1095
generateCSV(tasks) ==
    LET row(task) == Join([c \in 1..30 |-> escapeCSV(Values(task)[c])], Comma)
    IN  Join(<<Join(headers, Comma)>> \o [k \in 1..Len(tasks) |-> row(tasks[k])], Newline)

\* Reading CSV text with the standard quoting rules (RFC 4180): a comma or a newline
\* separates when it stands outside quotes, that is after an even number of quote
\* characters; a field enclosed in quotes stands for its inside, with every doubled
\* quote read as one.
Outside(text, i) == Cardinality({ j \in 1..(i - 1) : text[j] = Quote }) % 2 = 0

Separators(text, c) == { i \in 1..Len(text) : text[i] = c /\ Outside(text, i) }

\* the k-th smallest element of a set of numbers
Nth(S, k) == CHOOSE x \in S : Cardinality({ y \in S : y < x }) = k - 1

\* the pieces of text between the positions S
Split(text, S) ==
    [k \in 1..(Cardinality(S) + 1) |->
        SubSeq(text, IF k = 1 THEN 1 ELSE Nth(S, k - 1) + 1,
                     IF k = Cardinality(S) + 1 THEN Len(text) ELSE Nth(S, k) - 1)]

RECURSIVE Undoubled(_)
Undoubled(str) ==
    IF str = <<>> THEN <<>>
    ELSE IF Len(str) >= 2 /\ str[1] = Quote /\ str[2] = Quote
    THEN <<Quote>> \o Undoubled(SubSeq(str, 3, Len(str)))
    ELSE <<Head(str)>> \o Undoubled(Tail(str))

Unquoted(field) ==
    IF Len(field) >= 2 /\ field[1] = Quote /\ field[Len(field)] = Quote
    THEN Undoubled(SubSeq(field, 2, Len(field) - 1))
    ELSE field

ParseRecord(line) ==
    LET fields == Split(line, Separators(line, Comma))
    IN  [c \in 1..Len(fields) |-> Unquoted(fields[c])]

ParseCSV(text) ==
    LET lines == Split(text, Separators(text, Newline))
    IN  [k \in 1..Len(lines) |-> ParseRecord(lines[k])]

RECURSIVE Reverse(_)
Reverse(str) == IF str = <<>> THEN <<>> ELSE Append(Reverse(Tail(str)), Head(str))

\* the tasks handed to generateCSV: the title takes every string, the description
\* repeats it and the comments hold it backwards, so that the last field of a row and
\* the first field of the next vary freely
RowCounts == 0..2
CsvTasks ==
    UNION { [1..n -> { [title |-> t, description |-> t, comments |-> Reverse(t)] :
                          t \in Strings }] : n \in RowCounts }

NoCsv == [pc |-> "off", tasks |-> <<>>, text |-> <<>>, records |-> <<>>]
CsvOff == csv = NoCsv
CsvInit == csv \in { [NoCsv EXCEPT !.pc = "tasks", !.tasks = ts] : ts \in CsvTasks }

CsvOnly == UNCHANGED <<jobVars, fetchVars, replVars, httpVars, regVars, gqlVars, callVars>>

\* line 996: csvData = generateCSV(tasksWithComments)
Generate ==
    /\ csv.pc = "tasks"
    /\ csv' = [csv EXCEPT !.pc = "text", !.text = generateCSV(csv.tasks)]
    /\ CsvOnly

\* a reader of the downloaded file
ReadBack ==
    /\ csv.pc = "text"
    /\ csv' = [csv EXCEPT !.pc = "read", !.records = ParseCSV(csv.text)]
    /\ CsvOnly

CsvNext ==
    \/ Generate
    \/ ReadBack

\* ------------------------------------------------------------- job storage
\* The registry with several jobs and the clock: createJob, updateJob, stopJob and
\* the sweep of job-storage (src/README.md:79-125).
RETENTION_MS == 86400000
MaxHalfDays == 3
MaxFine == 2
JobIds == {"j1", "j2"}
HalfDay == RETENTION_MS \div 2
Millisecond == HalfDay \div HalfDay

RegOnly == UNCHANGED <<w, items, statusHist, gaugeHist, lastErrorTime, upstream, fetchers,
                       person, failAt, lastReq, replVars, httpVars, gqlVars, csvVars,
                       callVars>>

\* the routes' createJob: a new id, createdAt = Date.now()
RegCreate(id) ==
    /\ id \notin DOMAIN heap
    /\ heap' = [x \in DOMAIN heap \cup {id} |->
                  IF x = id
                  THEN Merge(NewJob(FALSE, FALSE, FALSE), [id |-> id, createdAt |-> now])
                  ELSE heap[x]]
    /\ jobs' = jobs \cup {id}
    /\ swept' = FALSE
    /\ UNCHANGED now
    /\ RegOnly

\* updateJob(id, {status}): nothing for an id that is not in the registry
RegUpdate(id) ==
    /\ id \in jobs
    /\ \E st \in {"running", "completed"} :
         heap' = [heap EXCEPT ![id] = Merge(@, [status |-> st])]
    /\ swept' = FALSE
    /\ UNCHANGED <<jobs, now>>
    /\ RegOnly

\* stopJob(id)
RegStop(id) ==
    /\ id \in jobs
    /\ heap' = [heap EXCEPT ![id].shouldStop = TRUE]
    /\ swept' = FALSE
    /\ UNCHANGED <<jobs, now>>
    /\ RegOnly

\* time passes: by half a day or by a millisecond
Advance ==
    /\ \E d \in {HalfDay, Millisecond} :
         /\ now' = now + d
         /\ now' <= StartTime + MaxHalfDays * HalfDay + MaxFine
         /\ (now' - StartTime) % HalfDay <= MaxFine
    /\ swept' = FALSE
    /\ UNCHANGED <<heap, jobs>>
    /\ RegOnly

\* as SweepDeletes, by age only
SweepDeletes_AgeOnly(job, at) == job.createdAt < at - RETENTION_MS

\* the condition of the sweep, line 121
SweepDeletes(job, at) == job.createdAt < at - RETENTION_MS \/ job.shouldStop

\* a run of the sweep over every entry of the registry, lines 117-124
SweepAll ==
    /\ jobs' = { id \in jobs : ~SweepDeletes(heap[id], now) }
    /\ swept' = TRUE
    /\ UNCHANGED <<heap, now>>
    /\ RegOnly

RegNext ==
    \/ \E id \in JobIds : RegCreate(id)
    \/ \E id \in JobIds : RegUpdate(id)
    \/ \E id \in JobIds : RegStop(id)
    \/ Advance
    \/ SweepAll

\* ------------------------------------------------- the comments of an item
\* One item of a job that imports to Linear, from the fetch of its comments to their
\* submission to the issue created for it.
MaxComments == 3

\* creation times of comments; 0 is the time of a comment without created_at (line 128)
Stamps == 0..2

\* the creation times of the comments of a task, in the order the upstream returns them
RawComments == UNION { [1..n -> Stamps] : n \in 0..MaxComments }

NoCall == [pc |-> "off"]
CallOff == call = NoCall

CallOnly == UNCHANGED <<jobVars, fetchVars, replVars, httpVars, regVars, gqlVars, csvVars>>

\* Array.prototype.sort with the comparator of lines 127-131 (a stable sort): c goes
\* behind the elements that are not younger than it
InsertByDate(sorted, c) ==
    LET k == Cardinality({ i \in 1..Len(sorted) : sorted[i].created_at <= c.created_at })
    IN  SubSeq(sorted, 1, k) \o <<c>> \o SubSeq(sorted, k + 1, Len(sorted))

RECURSIVE SortByDate(_)
SortByDate(comments) ==
    IF comments = <<>> THEN <<>>
    ELSE InsertByDate(SortByDate(SubSeq(comments, 1, Len(comments) - 1)),
                      comments[Len(comments)])

CommentsInit ==
    call \in { [pc |-> "fetch", raw |-> [k \in 1..Len(r) |-> [id |-> k, created_at |-> r[k]]],
                commentObjects |-> <<>>, commentBodies |-> <<>>,
                operations |-> <<>>, created |-> <<>>] : r \in RawComments }

\* lines 114-131 and 797-803: fetchTaskComments returns the comments sorted, the item
\* keeps them as commentObjects
CommentsFetched ==
    /\ call.pc = "fetch"
    /\ call' = [call EXCEPT !.pc = "fetched", !.commentObjects = SortByDate(call.raw)]
    /\ CallOnly

\* lines 840-843 after the issue was created: commentObjects.reverse() turns the array
\* round in place, and the bodies are taken from it in that order. (The body of a
\* comment stands for the comment here.)
BodiesTaken ==
    /\ call.pc = "fetched"
    /\ call' = [call EXCEPT !.pc = IF call.commentObjects = <<>> THEN "added" ELSE "adding",
                            !.commentObjects = Reverse(@),
                            !.commentBodies = Reverse(call.commentObjects)]
    /\ CallOnly

\* addCommentsToIssue, part_003:267-310: operation comment<index> for the body at
\* index, in one combined request (one plain request for a single body); when the
\* combined request fails the bodies are posted one by one in the same order
CommentsAdded ==
    /\ call.pc = "adding"
    /\ \E ok \in BOOLEAN :
         call' = [call EXCEPT !.pc = "added",
                              !.operations = IF Len(call.commentBodies) > 1
                                             THEN call.commentBodies ELSE <<>>,
                              !.created = IF ok THEN call.commentBodies ELSE <<>>]
    /\ CallOnly

CommentsNext ==
    \/ CommentsFetched
    \/ BodiesTaken
    \/ CommentsAdded

\* ------------------------------------------------------------ archiveIssues
\* One call archiveIssues(apiKey, issueIds) of linear-client, part_003:214-251, with the
\* requests it makes through archiveIssue and batchGraphQLOperations. The issue ids
\* are 1..n; `archived` is the set of issues the server has archived.
MaxIds == 4

\* what a request to the server comes to: the server archives and answers success,
\* it answers without success, or graphqlRequest throws (errors in the answer,
\* lines 16-49, or an answer without data)
Outcomes == {"success", "refused", "throws"}

ArchiveInit ==
    call \in { [pc |-> "start", issueIds |-> n, via |-> "none", archived |-> {},
                results |-> <<>>, raised |-> FALSE] : n \in 1..MaxIds }

\* lines 217-220 with archiveIssue, lines 202-212: one id is archived by a plain
\* request, outside any try
ArchiveOne ==
    /\ call.pc = "start" /\ call.issueIds = 1
    /\ \E out \in Outcomes :
         call' = [call EXCEPT !.pc = IF out = "throws" THEN "raised" ELSE "returned",
                              !.via = "single",
                              !.archived = IF out = "success" THEN {1} ELSE {},
                              !.results = IF out = "throws" THEN <<>> ELSE <<out = "success">>,
                              !.raised = out = "throws"]
    /\ CallOnly

\* lines 222-235 with batchGraphQLOperations, lines 63-98: the combined request
\* answers with a success flag per alias
ArchiveCombined ==
    /\ call.pc = "start" /\ call.issueIds > 1
    /\ \E flags \in [1..call.issueIds -> BOOLEAN] :
         call' = [call EXCEPT !.pc = "returned", !.via = "combined",
                              !.archived = { k \in 1..call.issueIds : flags[k] },
                              !.results = flags]
    /\ CallOnly

\* the combined request fails. With errors in its answer graphqlRequest throws and
\* batchGraphQLOperations goes through the operations one by one (lines 99-112);
\* with an answer that holds neither errors nor data, data[alias] throws in
\* archiveIssues, whose catch goes through the ids one by one (lines 236-249).
CombinedFails ==
    /\ call.pc = "start" /\ call.issueIds > 1
    /\ \E by \in {"operations", "ids"} :
         call' = [call EXCEPT !.pc = "each", !.via = by]
    /\ CallOnly

\* one request of either fallback loop: a failure is caught and counts as false
\* (results[op.alias] = null, line 109; results.push(false), line 246)
ArchiveEach ==
    /\ call.pc = "each"
    /\ \E out \in Outcomes :
         LET k == Len(call.results) + 1
         IN  call' = [call EXCEPT !.pc = IF k = call.issueIds THEN "returned" ELSE "each",
                                  !.archived = IF out = "success" THEN @ \cup {k} ELSE @,
                                  !.results = Append(@, out = "success")]
    /\ CallOnly

ArchiveNext ==
    \/ ArchiveOne
    \/ ArchiveCombined
    \/ CombinedFails
    \/ ArchiveEach

\* --------------------------------------------------- attachments of an item
\* The loop over the URLs found in the description and the comments of an item,
\* part_002:868-925. A URL is given by what isLikelyAttachmentUrl says of it.
\* History kept per URL: `tried`, the stages attempted in order, and `won`, the
\* stages that succeeded.
MaxUrls == 2
Stages == <<"binary", "record", "comment">>

UrlLists == UNION { [1..n -> BOOLEAN] : n \in 1..MaxUrls }

\* the loop turns to the URL at index k: lines 868-876 and 890-892
TurnTo(c, k) ==
    [c EXCEPT !.k = k,
              !.pc = IF k > Len(c.urls) THEN "done"
                     ELSE IF c.urls[k] THEN "download" ELSE "link"]

AttachInit ==
    call \in { TurnTo([pc |-> "none", urls |-> us, k |-> 0,
                       tried |-> [u \in 1..Len(us) |-> <<>>],
                       won |-> [u \in 1..Len(us) |-> {}],
                       logged |-> "none", raised |-> FALSE], 1) : us \in UrlLists }

Attempted(c, stage) == [c EXCEPT !.tried[c.k] = Append(@, stage)]
Win(c, stage) == [c EXCEPT !.won[c.k] = @ \cup {stage}]
Log(c, message) == [c EXCEPT !.logged = message]

\* lines 876-888, a URL that is not a likely attachment: skipped when the comments
\* mention it, else posted as a comment by a call outside the try of line 890, so
\* an exception of that call leaves the loop
PlainLink ==
    /\ call.pc = "link"
    /\ \E out \in {"mentioned", "posted", "throws"} :
         call' = CASE out = "mentioned" -> TurnTo(Log(call, "Skipping attachment link"), call.k + 1)
                   [] out = "posted" -> TurnTo(Log(call, "Attached link"), call.k + 1)
                   [] OTHER -> [call EXCEPT !.pc = "raised", !.raised = TRUE]
    /\ CallOnly

\* line 892 with downloadUrlBuffer, lines 195-245: a buffer, or null after a warning
DownloadUrlBuffer ==
    /\ call.pc = "download"
    /\ \E got \in BOOLEAN :
         call' = IF got THEN [Attempted(call, "binary") EXCEPT !.pc = "upload"]
                 ELSE [Log(Attempted(call, "binary"), "Failed to download") EXCEPT !.pc = "record"]
    /\ CallOnly

\* as Upload, going on to the attachment record after a successful upload
Upload_NoContinue ==
    /\ call.pc = "upload"
    /\ \E out \in {"id", "null", "throws"} :
         call' = CASE out = "id" ->
                        [Win(Log(call, "Uploaded attachment"), "binary") EXCEPT !.pc = "record"]
                   [] out = "null" -> [call EXCEPT !.pc = "record"]
                   [] OTHER -> [Log(call, "Binary upload failed") EXCEPT !.pc = "record"]
    /\ CallOnly

\* lines 893-906, createAttachmentFromBuffer: an attachment with an id ends the turn
\* of the URL, no attachment or an exception leads on to the attachment record
Upload ==
    /\ call.pc = "upload"
    /\ \E out \in {"id", "null", "throws"} :
         call' = CASE out = "id" ->
                        TurnTo(Win(Log(call, "Uploaded attachment"), "binary"), call.k + 1)
                   [] out = "null" -> [call EXCEPT !.pc = "record"]
                   [] OTHER -> [Log(call, "Binary upload failed") EXCEPT !.pc = "record"]
    /\ CallOnly

\* lines 908-917, createAttachment by URL: a record with an id ends the turn of the
\* URL, no record or an exception (swallowed) leads on to the comment
Record ==
    /\ call.pc = "record"
    /\ \E out \in {"id", "null", "throws"} :
         call' = IF out = "id"
                 THEN TurnTo(Win(Log(Attempted(call, "record"), "Created attachment record"),
                                 "record"), call.k + 1)
                 ELSE [Attempted(call, "record") EXCEPT !.pc = "comment"]
    /\ CallOnly

\* lines 919-924, addAttachmentLinkAsComment: its exception is caught and logged
Comment ==
    /\ call.pc = "comment"
    /\ \E out \in {"created", "refused", "throws"} :
         call' = CASE out = "created" ->
                        TurnTo(Win(Log(Attempted(call, "comment"), "Attached link"), "comment"),
                               call.k + 1)
                   [] out = "refused" ->
                        TurnTo(Log(Attempted(call, "comment"), "Attached link"), call.k + 1)
                   [] OTHER ->
                        TurnTo(Log(Attempted(call, "comment"), "Failed to attach"), call.k + 1)
    /\ CallOnly

AttachNext ==
    \/ PlainLink
    \/ DownloadUrlBuffer
    \/ Upload
    \/ Record
    \/ Comment

\* the updates passed to updateJob: one field, two fields, and a nested object, which
\* replaces the progress of the job as a whole
RegUpdates ==
    { [status |-> "running"], [status |-> "completed"],
      [status |-> "failed", error |-> Some("Export stopped by user")],
      [progress |-> [InitialProgress EXCEPT !.tasksProcessed = 1]] }

\* history: the call of updateJob or stopJob made last (n tells a call from the one
\* before it)
Called(name, id, updates) ==
    [pc |-> name, id |-> id, updates |-> updates,
     n |-> IF "n" \in DOMAIN call THEN 1 - call.n ELSE 0]


RegCallOnly ==
    UNCHANGED <<w, items, statusHist, gaugeHist, lastErrorTime, upstream, fetchers,
                person, failAt, lastReq, replVars, httpVars, gqlVars, csvVars>>

\* as CallUpdateJob, setting an entry for an id that has none
CallUpdateJob_Upsert(id) ==
    \E updates \in RegUpdates :
        /\ call' = Called("updateJob", id, updates)
        /\ IF id \in jobs
           THEN /\ heap' = [heap EXCEPT ![id] = Merge(@, updates)]
                /\ swept' = FALSE
                /\ UNCHANGED <<jobs, now>>
           ELSE /\ heap' = [x \in DOMAIN heap \cup {id} |->
                              IF x = id THEN updates ELSE heap[x]]
                /\ jobs' = jobs \cup {id}
                /\ swept' = FALSE
                /\ UNCHANGED now
        /\ RegCallOnly

\* updateJob(id, updates), lines 92-98: Object.assign on the job of that id, nothing
\* for an id that is not in the registry
CallUpdateJob(id) ==
    \E updates \in RegUpdates :
        /\ call' = Called("updateJob", id, updates)
        /\ IF id \in jobs
           THEN /\ heap' = [heap EXCEPT ![id] = Merge(@, updates)]
                /\ swept' = FALSE
                /\ UNCHANGED <<jobs, now>>
           ELSE UNCHANGED <<heap, jobs, now, swept>>
        /\ RegCallOnly

\* stopJob(id), lines 108-114: nothing for an id that is not in the registry
CallStopJob(id) ==
    /\ call' = Called("stopJob", id, [shouldStop |-> TRUE])
    /\ IF id \in jobs
       THEN /\ heap' = [heap EXCEPT ![id].shouldStop = TRUE]
            /\ swept' = FALSE
            /\ UNCHANGED <<jobs, now>>
       ELSE UNCHANGED <<heap, jobs, now, swept>>
    /\ RegCallOnly

\* the registry without the clock: jobs are created, updated, stopped and swept
RegistryNext ==
    \/ \E id \in JobIds : RegCreate(id)
    \/ \E id \in JobIds : CallUpdateJob(id)
    \/ \E id \in JobIds : CallStopJob(id)
    \/ SweepAll

\* ------------------------------------------------------------ state mapping
\* mapProductiveStatusToLinearState, part_002:479-545, on texts given character by
\* character.
Lower(c) == IF c = "D" THEN "d" ELSE IF c = "B" THEN "b" ELSE IF c = "T" THEN "t"
            ELSE IF c = "I" THEN "i" ELSE IF c = "P" THEN "p" ELSE IF c = "R" THEN "r"
            ELSE c

toLowerCase(str) == [i \in 1..Len(str) |-> Lower(str[i])]
startsWith(str, s) == Len(s) <= Len(str) /\ SubSeq(str, 1, Len(s)) = s
includes(str, s) == \E i \in 0..(Len(str) - Len(s)) : SubSeq(str, i + 1, i + Len(s)) = s

\* String.prototype.replace with a text pattern: the first occurrence only
replace(str, a, b) ==
    IF includes(str, a)
    THEN LET i == CHOOSE i \in 0..(Len(str) - Len(a)) :
                    /\ SubSeq(str, i + 1, i + Len(a)) = a
                    /\ \A j \in 0..(i - 1) : SubSeq(str, j + 1, j + Len(a)) # a
         IN  SubSeq(str, 1, i) \o b \o SubSeq(str, i + Len(a) + 1, Len(str))
    ELSE str

\* line 493
archiveStatuses ==
    { <<"d", "o", "n", "e">>,
      <<"c", "l", "o", "s", "e", "d">>,
      <<"c", "a", "n", "c", "e", "l", "l", "e", "d">>,
      <<"c", "a", "n", "c", "e", "l">>,
      <<"c", "o", "m", "p", "l", "e", "t", "e", "d">>,
      <<"f", "i", "n", "i", "s", "h", "e", "d">>,
      <<"r", "e", "s", "o", "l", "v", "e", "d">>,
      <<"c", "o", "m", "p", "l", "e", "t", "e">> }

\* lines 510-515, in the order of Object.entries
statusMappings ==
    << [linearState |-> <<"b", "a", "c", "k", "l", "o", "g">>,
        productiveNames |-> { <<"b", "a", "c", "k", "l", "o", "g">>,
             <<"t", "o", "d", "o">>,
             <<"t", "o", " ", "d", "o">>,
             <<"o", "p", "e", "n">> }],
       [linearState |-> <<"i", "n", " ", "p", "r", "o", "g", "r", "e", "s", "s">>,
        productiveNames |-> { <<"i", "n", " ", "p", "r", "o", "g", "r", "e", "s", "s">>,
             <<"i", "n", "_", "p", "r", "o", "g", "r", "e", "s", "s">>,
             <<"d", "o", "i", "n", "g">>,
             <<"a", "c", "t", "i", "v", "e">>,
             <<"s", "t", "a", "r", "t", "e", "d">>,
             <<"w", "o", "r", "k", "i", "n", "g">> }],
       [linearState |-> <<"i", "n", " ", "r", "e", "v", "i", "e", "w">>,
        productiveNames |-> { <<"i", "n", " ", "r", "e", "v", "i", "e", "w">>,
             <<"r", "e", "v", "i", "e", "w">>,
             <<"r", "e", "v", "i", "e", "w", "i", "n", "g">>,
             <<"q", "a">>,
             <<"t", "e", "s", "t", "i", "n", "g">> }],
       [linearState |-> <<"d", "o", "n", "e">>,
        productiveNames |-> { <<"d", "o", "n", "e">>,
             <<"c", "o", "m", "p", "l", "e", "t", "e", "d">>,
             <<"f", "i", "n", "i", "s", "h", "e", "d">>,
             <<"r", "e", "s", "o", "l", "v", "e", "d">> }] >>

\* lines 495-502
isArchiveStatus(statusName, statusType) ==
    \E s \in archiveStatuses :
        \/ statusName = s
        \/ startsWith(statusName, s)
        \/ statusType = s
        \/ startsWith(statusType, s)
        \/ (includes(statusName, s) /\ Len(statusName) - Len(s) <= 2)

\* Array.prototype.find: the first element that satisfies the test, given as the set
\* of the indices that do
Find(q, hits) ==
    IF hits = {} THEN "undefined" ELSE q[CHOOSE i \in hits : \A j \in hits : i <= j].id

\* lines 520-523: the Linear state of a bucket
StateOf(linearStates, linearState) ==
    Find(linearStates,
         { i \in 1..Len(linearStates) :
             \/ includes(toLowerCase(linearStates[i].name), linearState)
             \/ toLowerCase(linearStates[i].type) = replace(linearState, <<" ">>, <<"_">>) })

\* lines 533-536
BacklogOf(linearStates) ==
    Find(linearStates,
         { i \in 1..Len(linearStates) :
             \/ includes(toLowerCase(linearStates[i].name), <<"b", "a", "c", "k", "l", "o", "g">>)
             \/ toLowerCase(linearStates[i].type) = <<"b", "a", "c", "k", "l", "o", "g">> })

\* lines 517-530: the buckets whose names the status name contains and that have a
\* Linear state, in order
Mapped(statusName, linearStates) ==
    { b \in 1..Len(statusMappings) :
        /\ \E name \in statusMappings[b].productiveNames : includes(statusName, name)
        /\ StateOf(linearStates, statusMappings[b].linearState) # "undefined" }

\* as mapProductiveStatusToLinearState, taking a status name that contains a word of
\* the terminal vocabulary for an archive status whatever its length
mapProductiveStatusToLinearState_AnyLength(productiveStatus, linearStates) ==
    IF ~productiveStatus.present
    THEN [stateId |-> "undefined", shouldArchive |-> FALSE]
    ELSE LET statusName == toLowerCase(productiveStatus.name)
             statusType == toLowerCase(productiveStatus.type)
             hits == Mapped(statusName, linearStates)
         IN  IF \E s \in archiveStatuses :
                    includes(statusName, s) \/ startsWith(statusType, s)
             THEN [stateId |-> "undefined", shouldArchive |-> TRUE]
             ELSE IF hits # {}
             THEN [stateId |-> StateOf(linearStates,
                                       statusMappings[CHOOSE b \in hits :
                                                        \A c \in hits : b <= c].linearState),
                   shouldArchive |-> FALSE]
             ELSE [stateId |-> BacklogOf(linearStates), shouldArchive |-> FALSE]

\* lines 479-545; a status without a name or a type has the empty text there
mapProductiveStatusToLinearState(productiveStatus, linearStates) ==
    IF ~productiveStatus.present
    THEN [stateId |-> "undefined", shouldArchive |-> FALSE]
    ELSE LET statusName == toLowerCase(productiveStatus.name)
             statusType == toLowerCase(productiveStatus.type)
             hits == Mapped(statusName, linearStates)
         IN  IF isArchiveStatus(statusName, statusType)
             THEN [stateId |-> "undefined", shouldArchive |-> TRUE]
             ELSE IF hits # {}
             THEN [stateId |-> StateOf(linearStates,
                                       statusMappings[CHOOSE b \in hits :
                                                        \A c \in hits : b <= c].linearState),
                   shouldArchive |-> FALSE]
             ELSE [stateId |-> BacklogOf(linearStates), shouldArchive |-> FALSE]

\* the task has no workflow status, or none with attributes (line 485)
NoStatus == [present |-> FALSE, name |-> <<>>, type |-> <<>>]

\* the names and types of the workflow statuses of the upstream
StatusNames ==
    { <<>>,
      <<"D", "o", "n", "e">>,
      <<"d", "o", "n", "e", "!">>,
      <<"u", "n", "d", "o", "n", "e">>,
      <<"n", "o", "t", " ", "d", "o", "n", "e">>,
      <<"T", "o", "d", "o">>,
      <<"r", "e", "o", "p", "e", "n", "e", "d">>,
      <<"I", "n", " ", "P", "r", "o", "g", "r", "e", "s", "s">>,
      <<"t", "o", " ", "r", "e", "v", "i", "e", "w">>,
      <<"b", "l", "o", "c", "k", "e", "d">>,
      <<"d", "o", "i", "n", "g", " ", "q", "a">>,
      <<"c", "a", "n", "c", "e", "l">> }
StatusTypes ==
    { <<>>,
      <<"o", "p", "e", "n">>,
      <<"c", "l", "o", "s", "e", "d">>,
      <<"u", "n", "c", "l", "o", "s", "e", "d">> }

\* the workflow states of a Linear team: any selection of these five, in this order
TeamStates ==
    << [id |-> "s-backlog", name |-> <<"B", "a", "c", "k", "l", "o", "g">>, type |-> <<"b", "a", "c", "k", "l", "o", "g">>],
       [id |-> "s-todo", name |-> <<"T", "o", "d", "o">>, type |-> <<"u", "n", "s", "t", "a", "r", "t", "e", "d">>],
       [id |-> "s-progress", name |-> <<"I", "n", " ", "P", "r", "o", "g", "r", "e", "s", "s">>, type |-> <<"s", "t", "a", "r", "t", "e", "d">>],
       [id |-> "s-review", name |-> <<"I", "n", " ", "R", "e", "v", "i", "e", "w">>, type |-> <<"s", "t", "a", "r", "t", "e", "d">>],
       [id |-> "s-done", name |-> <<"D", "o", "n", "e">>, type |-> <<"c", "o", "m", "p", "l", "e", "t", "e", "d">>] >>

RECURSIVE Selections(_)
Selections(q) ==
    IF q = <<>> THEN { <<>> }
    ELSE LET rest == Selections(Tail(q))
         IN  rest \cup { <<Head(q)>> \o r : r \in rest }

MapInit ==
    call \in { [pc |-> "map", status |-> st, linearStates |-> ls,
                result |-> [stateId |-> "undefined", shouldArchive |-> FALSE]] :
                 st \in {NoStatus} \cup [present : {TRUE}, name : StatusNames,
                                          type : StatusTypes],
                 ls \in Selections(TeamStates) }

\* line 831
MapStatus ==
    /\ call.pc = "map"
    /\ call' = [call EXCEPT !.pc = "mapped",
                            !.result = mapProductiveStatusToLinearState(call.status,
                                                                        call.linearStates)]
    /\ CallOnly

MapNext ==
    \/ MapStatus

\* ------------------------------------------------- the authors of comments
\* The enrichment pass of fetchTaskComments, part_002:133-186: comments.map starts the
\* callback of every comment in turn, each running up to its first await, then the
\* responses of the person requests arrive in any order.
MaxAuthored == 3
PersonIds == {"p1", "p2"}

\* the author ids of the comments of a task; "none" for a comment without a person
AuthorLists == UNION { [1..n -> PersonIds \cup {"none"}] : n \in 0..MaxAuthored }

PersonsInit ==
    call \in { [pc |-> "map", personIds |-> a, personCache |-> {},
                waiting |-> {}, requests |-> [p \in PersonIds |-> 0],
                authorName |-> [k \in 1..Len(a) |-> "pending"], raised |-> FALSE] :
                a \in AuthorLists }

\* lines 160-173 and 137-141: every callback runs to its first await; one with a
\* person id calls fetchPersonDetails, which finds the cache empty (nothing has been
\* awaited yet) and issues its request; one without takes the name of the comment
MapComments ==
    /\ call.pc = "map"
    /\ LET asked == { k \in 1..Len(call.personIds) :
                        call.personIds[k] # "none" /\ call.personIds[k] \notin call.personCache }
       IN  call' = [call EXCEPT
                      !.pc = IF asked = {} THEN "returned" ELSE "lookups",
                      !.waiting = asked,
                      !.requests = [p \in PersonIds |->
                                      Cardinality({ k \in asked : call.personIds[k] = p })],
                      !.authorName = [k \in 1..Len(call.personIds) |->
                                        IF k \in asked THEN "pending" ELSE "person_name"]]
    /\ CallOnly

\* lines 141-156: the request for comment k is answered: the person is cached and
\* named, or the response is not ok or the fetch throws and the name is 'Unknown'
PersonAnswered(k) ==
    /\ call.pc = "lookups" /\ k \in call.waiting
    /\ \E ok \in BOOLEAN :
         call' = [call EXCEPT
                    !.pc = IF call.waiting = {k} THEN "returned" ELSE "lookups",
                    !.waiting = @ \ {k},
                    !.personCache = IF ok THEN @ \cup {call.personIds[k]} ELSE @,
                    !.authorName[k] = IF ok THEN call.personIds[k] ELSE "Unknown"]
    /\ CallOnly

PersonsNext ==
    \/ MapComments
    \/ \E k \in 1..MaxAuthored : PersonAnswered(k)

\* ------------------------------------------------ the replication of one item
\* The part of an item task after createLinearIssue was called, part_002:833-948:
\* the comments, then the URLs of the item one by one, then the result of the task.
\* made is history: createLinearIssue returned an issue.
MaxBodies == 2
MaxLinks == 2

\* a URL of the item: mentioned in a comment and no attachment (skipped, line 877),
\* another link that is no attachment, or a likely attachment
UrlKinds == {"mentioned", "link", "file"}
LinkLists == UNION { [1..n -> UrlKinds] : n \in 0..MaxLinks }

ItemInit ==
    call \in { [pc |-> "create", shouldArchive |-> a, bodies |-> b, urls |-> q, u |-> 1,
                made |-> FALSE, issueId |-> FALSE, archive |-> FALSE, warned |-> FALSE] :
                a \in BOOLEAN, b \in 0..MaxBodies, q \in LinkLists }

\* lines 925-931: the result of an item whose issue was created
Returned(c) == [c EXCEPT !.pc = "returned", !.issueId = TRUE, !.archive = c.shouldArchive]

\* lines 932-935 and 938-948: createLinearIssue returned no issue, or the catch of the
\* item's try took an exception
NoIssue(c) == [c EXCEPT !.pc = "returned", !.issueId = FALSE, !.archive = FALSE]

RECURSIVE Scan(_)
\* lines 868-880: the loop over the URLs up to the next call it awaits
Scan(c) ==
    IF c.u > Len(c.urls) THEN Returned(c)
    ELSE IF c.urls[c.u] = "mentioned" THEN Scan([c EXCEPT !.u = @ + 1])
    ELSE [c EXCEPT !.pc = c.urls[c.u]]

\* lines 957-959: the filter of the archive batch
InBatch(c) == c.issueId /\ c.archive

\* lines 833-843: createLinearIssue returns an issue, returns null, or throws
CreateIssueDone ==
    /\ call.pc = "create"
    /\ \E out \in {"issue", "null", "throws"} :
         call' = IF out = "issue"
                 THEN IF call.bodies > 0
                      THEN [call EXCEPT !.pc = "comments", !.made = TRUE]
                      ELSE Scan([call EXCEPT !.made = TRUE])
                 ELSE NoIssue(call)
    /\ CallOnly

\* lines 843-848: addCommentsToIssue returns true or false; with one body it is
\* addCommentToIssue (part_003:269-271) and an exception of graphqlRequest leaves it,
\* with more the batch and the fallback catch every exception (part_003:291-306)
AddCommentsDone ==
    /\ call.pc = "comments"
    /\ \E out \in {"true", "false", "throws"} :
         /\ out = "throws" => call.bodies = 1
         /\ call' = IF out = "throws" THEN NoIssue(call)
                    ELSE Scan([call EXCEPT !.warned = @ \/ out = "false"])
    /\ CallOnly

\* lines 882-887: addAttachmentLinkAsComment for a link that is no attachment, outside
\* the try of the attachments: it returns or throws
LinkDone ==
    /\ call.pc = "link"
    /\ \E ok \in BOOLEAN :
         call' = IF ok THEN Scan([call EXCEPT !.u = @ + 1]) ELSE NoIssue(call)
    /\ CallOnly

\* lines 889-922: the attachment of a URL inside its try: attached in one of the
\* three ways, or the catch logs 'Failed to attach'
FileDone ==
    /\ call.pc = "file"
    /\ \E ok \in BOOLEAN :
         call' = Scan([call EXCEPT !.u = @ + 1, !.warned = @ \/ ~ok])
    /\ CallOnly

ItemNext ==
    \/ CreateIssueDone
    \/ AddCommentsDone
    \/ LinkDone
    \/ FileDone

\* ========================================================= specifications
Init ==JobInit /\ FetchOff /\ ReplOff /\ HttpOff /\ CsvOff /\ CallOff

Next ==
    \/ Submit
    \/ TasksFetched(Projects)
    \/ StatusesFetched
    \/ TestChecked
    \/ TeamStatesFetched
    \/ \E k \in 1..concurrency : ItemCommentsDone(k)
    \/ \E k \in 1..concurrency : ItemLinearDone(k)
    \/ ArchiveDone
    \/ ChunkSleepDone
    \/ StopJob
    \/ Sweep

Spec == Init /\ [][Next]_vars

\* The worker under the assumption that every call it awaits returns or fails and
\* every sleep ends: a step of the worker that stays possible is taken.
\* the task lists of the jobs: the short ones and one of two chunks
LiveProjects ==
    UNION { [1..n -> TaskKinds] : n \in 0..1 } \cup { [i \in 1..MaxTasks |-> PlainTask] }

WorkerNext ==
    \/ TasksFetched(LiveProjects)
    \/ StatusesFetched
    \/ TestChecked
    \/ TeamStatesFetched
    \/ \E k \in 1..concurrency : ItemCommentsDone(k)
    \/ \E k \in 1..concurrency : ItemLinearDone(k)
    \/ ArchiveDone
    \/ ChunkSleepDone

LiveNext ==
    \/ Submit
    \/ WorkerNext
    \/ StopJob
    \/ Sweep

\* ENABLED <<WorkerNext>>_vars, written out: an awaited call of the main function or of
\* an item task is outstanding
WorkerCanStep ==
    \/ w.pc \in {"fetchTasks", "fetchStatuses", "testCheck", "teamStates", "archive",
                 "chunkSleep"}
    \/ \E k \in 1..Len(items) : items[k].pc \in {"comments", "linear"}

\* WF_vars(WorkerNext) by its definition, with ENABLED replaced by WorkerCanStep
WorkerFair == []<>(~WorkerCanStep) \/ []<><<WorkerNext>>_vars

SpecLive == Init /\ [][LiveNext]_vars /\ WorkerFair

InitFetch == JobInit /\ FetchInit /\ ReplOff /\ HttpOff /\ CsvOff /\ CallOff
SpecFetch == InitFetch /\ [][FetchNext]_vars

InitCooldown == JobInit /\ CooldownInit /\ ReplOff /\ HttpOff /\ CsvOff /\ CallOff
SpecCooldown == InitCooldown /\ [][CooldownNext]_vars

InitApi == JobInit /\ FetchOff /\ ReplOff /\ HttpOff /\ CsvOff /\ CallOff
SpecApi == InitApi /\ [][ApiNext]_vars

InitCsv == JobInit /\ FetchOff /\ ReplOff /\ HttpOff /\ CsvInit /\ CallOff
SpecCsv == InitCsv /\ [][CsvNext]_vars

InitComments == JobInit /\ FetchOff /\ ReplOff /\ HttpOff /\ CsvOff /\ CommentsInit
SpecComments == InitComments /\ [][CommentsNext]_vars

InitArchive == JobInit /\ FetchOff /\ ReplOff /\ HttpOff /\ CsvOff /\ ArchiveInit
SpecArchive == InitArchive /\ [][ArchiveNext]_vars

InitAttach == JobInit /\ FetchOff /\ ReplOff /\ HttpOff /\ CsvOff /\ AttachInit
SpecAttach == InitAttach /\ [][AttachNext]_vars

InitGql == JobInit /\ FetchOff /\ ReplOff /\ HttpOff /\ CsvOff /\ CallOff
SpecGql == InitGql /\ [][GqlNext]_vars

InitSweep == JobInit /\ FetchOff /\ ReplOff /\ HttpOff /\ CsvOff /\ CallOff
SpecSweep == InitSweep /\ [][RegNext]_vars

InitMap == JobInit /\ FetchOff /\ ReplOff /\ HttpOff /\ CsvOff /\ MapInit
SpecMap == InitMap /\ [][MapNext]_vars

InitPersons == JobInit /\ FetchOff /\ ReplOff /\ HttpOff /\ CsvOff /\ PersonsInit
SpecPersons == InitPersons /\ [][PersonsNext]_vars

InitItem == JobInit /\ FetchOff /\ ReplOff /\ HttpOff /\ CsvOff /\ ItemInit
SpecItem == InitItem /\ [][ItemNext]_vars

InitView == JobInit /\ FetchOff /\ ReplOff /\ HttpOff /\ CsvOff /\ CallOff
SpecView == InitView /\ [][ViewNext]_vars

InitRegistry == JobInit /\ FetchOff /\ ReplOff /\ HttpOff /\ CsvOff /\ CallOff
SpecRegistry == InitRegistry /\ [][RegistryNext]_vars

\* the timers of the stream handler fire: Node runs a due timer callback
InitStream == JobInit /\ FetchOff /\ ReplOff /\ HttpOff /\ CsvOff /\ CallOff
SpecStream ==
    InitStream /\ [][StreamNext]_vars /\ WF_vars(PollTick) /\ WF_vars(CloseTimer)

InitRepl == JobInit /\ FetchOff /\ ReplInit /\ HttpOff /\ CsvOff /\ CallOff
SpecRepl == InitRepl /\ [][ReplNext]_vars

\* ================================================================= claims
Exists == JobId \in DOMAIN heap
TheJob == heap[JobId]
Last(q) == q[Len(q)]
IsPrefix(a, b) == Len(a) <= Len(b) /\ SubSeq(b, 1, Len(a)) = a
Terminal == {"completed", "failed"}

StatusPaths ==
    { <<>>, <<"pending">>, <<"pending", "running">>,
      <<"pending", "running", "completed">>, <<"pending", "running", "failed">> }

\* C1 (as claimed): the values assigned to a job's status follow pending -> running ->
\* completed or pending -> running -> failed, a terminal status is never left, and
\* every job makes exactly one transition into a terminal status: its worker does not
\* end without one.
C1_ExactlyOneTerminal ==
    /\ statusHist \in StatusPaths
    /\ Exists => TheJob.status = Last(statusHist)
    /\ w.pc = "done" => Last(statusHist) \in Terminal

\* C1 (amended): the values assigned to a job's status follow pending -> running ->
\* completed or pending -> running -> failed: there is at most one assignment of a
\* terminal status and none after it, whatever the item tasks, stop requests and the
\* sweep do; a job still in the registry when its worker ends has made that one
\* transition, a job the sweep deleted earlier keeps the status running.
C1_StatusPath ==
    /\ statusHist \in StatusPaths
    /\ Exists => TheJob.status = Last(statusHist)
    /\ w.pc = "done" =>
          \/ Last(statusHist) \in Terminal
          \/ Last(statusHist) = "running" /\ JobId \notin jobs

\* a failed job whose item tasks are still running
C1_Witness ==
    /\ Exists /\ TheJob.status = "failed"
    /\ \E k \in 1..Len(items) : items[k].pc \in {"comments", "linear"}
    /\ \E k \in 1..Len(items) : items[k].pc = "rejected"

\* C5 (as claimed): an exception in comment enrichment or in replication of one item
\* is caught for that item alone: the item task still returns a result without an
\* issue, the chunk is not rejected and the job does not fail.
C5_ItemFailureIsolated ==
    \A k \in 1..Len(items) :
        items[k].threw \in {"comments", "linear"} =>
            /\ items[k].pc = "ok" /\ ~items[k].issueId
            /\ ~w.rejected

StopTail(n) ==
    [k \in 1..(n + 1) |-> IF k <= n THEN [message |-> "Export stopped by user", type |-> "warning"]
                          ELSE [message |-> "Export failed", type |-> "error"]]

RECURSIVE GaugeSeq(_)
\* c1, 0, c2, 0, ... for n items in chunks of the concurrency width
GaugeSeq(n) ==
    IF n = 0 THEN <<>>
    ELSE <<Min(n, concurrency), 0>> \o GaugeSeq(n - Min(n, concurrency))

CeilDiv(a, b) == (a + b - 1) \div b

\* C7: the values assigned to activeRequests are a prefix of c1, 0, c2, 0, ..., ck, 0
\* (ci the size of the i-th chunk, k = ceil(N/5)), and the whole sequence once the
\* worker has processed every chunk.
C7_GaugeSequence ==
    /\ IsPrefix(gaugeHist, GaugeSeq(Len(w.tasks)))
    /\ (w.pc = "done" /\ ~w.rejected /\ w.tasks # <<>>) =>
          /\ gaugeHist = GaugeSeq(Len(w.tasks))
          /\ Len(gaugeHist) = 2 * CeilDiv(Len(w.tasks), concurrency)

\* a completed run of two chunks, the second one partial
C7_Witness ==
    /\ Exists /\ TheJob.status = "completed"
    /\ Len(gaugeHist) = 4 /\ gaugeHist[1] = concurrency /\ gaugeHist[3] < concurrency

\* C8 (as claimed): tasksProcessed never decreases and equals totalTasks in every
\* state where the job is completed.
C8_ProcessedReachesTotal ==
    /\ [][Exists => TheJob'.progress.tasksProcessed >= TheJob.progress.tasksProcessed]_vars
    /\ [](Exists /\ TheJob.status = "completed" =>
            TheJob.progress.tasksProcessed = TheJob.progress.totalTasks)

\* C9: tasksProcessed never exceeds totalTasks.
C9_ProcessedAtMostTotal ==
    Exists => TheJob.progress.tasksProcessed <= TheJob.progress.totalTasks

\* a completed test-mode job whose total was lowered by the only-not-done filter
C9_Witness ==
    /\ Exists /\ TheJob.status = "completed"
    /\ TheJob.onlyNotDoneTasks /\ TheJob.testMode
    /\ \E n \in 1..Len(TheJob.logs) : TheJob.logs[n].message = "Excluding task"
    /\ TheJob.progress.tasksProcessed > 0


\* ----------------------------------------------------------- fetchAllPages
Fetch == fetchers[1]

\* C2: whenever fetchAllPages returns normally, its result is the concatenation of the
\* items of pages 1..N in ascending page order, each page once and none skipped, for
\* every page size and every pattern of failed and retried requests
C2_ReturnsEveryPage ==
    Fetch.pc = "returned" => Fetch.data = AllData(upstream)

\* C3: when all 5 attempts for one page have failed (non-2xx responses, network
\* exceptions or a mix), fetchAllPages has raised an error: it has not moved on to the
\* next page and has not returned a result
C3_ExhaustedPageRaises ==
    Fetch.exhausted # {} => Fetch.pc = "threw"

\* C4: no request is issued to the upstream API, by any fetch, less than 120 s after
\* the latest failure of an upstream fetch, also by a fetch that was already sleeping
\* in the cooldown gate
C4_NoRequestInCooldown ==
    lastReq.after >= 0 => lastReq.at >= lastReq.after + ERROR_COOLDOWN_MS

\* -------------------------------------------------------------- replication
\* the issues that are not deleted and whose description contains the task's origin URL
ActiveFor(id) ==
    { n \in 1..Len(target) : ~target[n].deleted /\ Contains(target[n].description, TaskUrl(id)) }

\* the team held no issue created for the task before the first run
Unseeded(id) == \A n \in 1..seeded : target[n].origin # id

\* the runs so far are two runs of the task with the duplicate check, all calls succeeding
RanTwice(id) ==
    /\ repl.pc = "idle"
    /\ Len(runs) = 2
    /\ \A k \in 1..2 : runs[k].task = id /\ runs[k].check /\ runs[k].clean

\* C10: starting from a target that holds no record for a task, two replication runs of
\* the task in sequence with the duplicate check (all downstream calls succeeding) leave
\* exactly one non-deleted issue whose description contains the task's origin URL
C10_TwoRunsOneRecord ==
    \A id \in TaskIds :
        Unseeded(id) /\ RanTwice(id) => Cardinality(ActiveFor(id)) = 1

\* ---------------------------------------------------------- empty task list
HasLog(message) == \E n \in 1..Len(TheJob.logs) : TheJob.logs[n].message = message

\* the worker has ended with a task list that the primary fetch returned and that is
\* empty after the filters
EmptyEnd ==
    /\ Exists /\ w.pc = "done"
    /\ HasLog("Total tasks found")
    /\ w.tasks = <<>>

NoTasksError == Some("No tasks found for this project")

\* C11 (as claimed): when the task list is empty after the primary fetch and the
\* filters, the job ends with status failed and the error "No tasks found for this
\* project"; it never reaches completed and no CSV result is stored.
C11_EmptyListFails ==
    EmptyEnd =>
        /\ TheJob.status = "failed" /\ TheJob.error = NoTasksError
        /\ "completed" \notin { statusHist[n] : n \in 1..Len(statusHist) }
        /\ TheJob.csvData = None

\* C11 (amended): when the task list is empty after the primary fetch and the filters,
\* the worker logs the error "No tasks found for this project" and ends; a job that is
\* still in the registry then gets status failed with that error, a job the sweep has
\* deleted before keeps status running with no error; in both cases the job never
\* reaches completed and no CSV result is stored.
C11_EmptyListEnds ==
    EmptyEnd =>
        /\ Last(TheJob.logs) = [message |-> "No tasks found for this project", type |-> "error"]
        /\ \/ TheJob.status = "failed" /\ TheJob.error = NoTasksError
           \/ TheJob.status = "running" /\ TheJob.error = None /\ JobId \notin jobs
        /\ "completed" \notin { statusHist[n] : n \in 1..Len(statusHist) }
        /\ TheJob.csvData = None

\* a registered job failed because the only-not-done filter removed every task
C11_Witness ==
    /\ EmptyEnd /\ JobId \in jobs
    /\ TheJob.status = "failed" /\ TheJob.error = NoTasksError
    /\ HasLog("Excluding task")

\* ------------------------------------------------------------- submission
\* the request handled last is a submission asking for a Linear import without a team id
NoTeamRequest ==
    /\ req.kind = "export"
    /\ req.body.importToLinear = "true"
    /\ Missing(req.body.linearTeamId)

DownloadStep == req'.kind = "download" /\ req'.n # req.n

\* the job a download asks for is there, completed, and holds its CSV result
CsvReady(id) == id \in jobs /\ heap[id].status = "completed" /\ heap[id].csvData # None

\* the answer matches the job the request names
DownloadAnswered ==
    /\ CsvReady(req.id) => resp.status = 200 /\ resp.data = heap[req.id].csvData
    /\ resp.data # None => CsvReady(req.id)
    /\ (req.id \in jobs /\ heap[req.id].status \in {"pending", "running", "failed"})
          => resp.status = 400 /\ resp.data = None
    /\ req.id \notin jobs => resp.status = 404 /\ resp.data = None

\* C13: GET /api/export/:jobId/download returns the CSV body only when the job exists,
\* is completed and has its CSV result; for an existing job that is pending, running or
\* failed it answers 400 without CSV data, and for an unknown job 404
C13_DownloadOnlyWhenReady == [][DownloadStep => DownloadAnswered']_vars

\* a download of a completed job answered with its CSV, and one of a failed job refused
C13_Witness ==
    /\ req.kind = "download" /\ req.id = JobId /\ CsvReady(JobId)
    /\ resp.status = 200 /\ resp.data = heap[JobId].csvData

C13_WitnessRefused ==
    /\ req.kind = "download" /\ req.id = JobId /\ JobId \in jobs
    /\ heap[JobId].status = "failed" /\ resp.status = 400


\* ------------------------------------------------------------- event stream
\* a poll tick has observed the job completed or failed
SawTerminal == stream.updates > 0

\* what holds of a stream from the tick that observed a terminal status on: one update
\* message with that status, which is the last message, and the poll timer is cleared
FinalUpdateOnce ==
    SawTerminal =>
        /\ stream.updates = 1 /\ stream.later = 0
        /\ stream.last = <<"update", TheJob.status>> /\ TheJob.status \in Terminal
        /\ ~stream.interval
        /\ stream.timeout \/ stream.pc = "closed"

\* C14: once a poll tick of an open stream observes the job in a terminal status, the
\* stream sends exactly one update message with that status, stops polling and sends no
\* further message, and is closed after that; so every open stream of a job that has
\* reached a terminal status is eventually closed
C14_StreamEnds ==
    /\ []FinalUpdateOnce
    /\ SawTerminal ~> stream.pc = "closed"
    /\ (stream.pc = "open" /\ Exists /\ TheJob.status \in Terminal) ~> stream.pc = "closed"

\* the stream has sent its final update for a completed job and was closed by the timeout
C14_Witness ==
    /\ stream.pc = "closed" /\ ~stream.timeout /\ stream.updates = 1
    /\ stream.last = <<"update", "completed">>


\* ------------------------------------------------------------- retention sweep
\* created more than 24 hours ago / less than 24 hours ago
OlderThanDay(id) == now - heap[id].createdAt > RETENTION_MS
YoungerThanDay(id) == now - heap[id].createdAt < RETENTION_MS

WaitsUntil(s) ==
    IF s.r.reset # -1 THEN s.r.reset
    ELSE s.at + (IF s.r.duration # 0 THEN s.r.duration ELSE DEFAULT_RESET_MS)

\* C16: a graphqlRequest call whose request is answered with a rate-limit signal sends
\* the request exactly once more, not before the reported reset time (or the default
\* window) has passed; a rate-limited retry raises an error; a call that saw no
\* rate-limit signal sends one request; so a call sends at most two HTTP requests
C16_RetryOnceOnRateLimit ==
    /\ Len(gql.sent) <= 2
    /\ gql.pc # "idle" => Len(gql.sent) >= 1
    /\ (gql.seen = <<>>) => Len(gql.sent) <= 1
    /\ (gql.seen # <<>> /\ gql.pc # "wait")
          => Len(gql.sent) = 2 /\ gql.sent[2] >= WaitsUntil(gql.seen[1])
    /\ (gql.seen # <<>> /\ gql.pc = "wait") => Len(gql.sent) = 1
    /\ Len(gql.seen) = 2 => gql.pc = "done" /\ gql.result = "error"

\* a call that was rate limited twice and raised, the first reset time taken from the
\* header and lying in the future
C16_Witness ==
    /\ Len(gql.seen) = 2 /\ gql.result = "error"
    /\ gql.seen[1].r.reset > gql.seen[1].at
    /\ gql.sent[2] > gql.sent[1]


\* ------------------------------------------------------------- logs
\* C17: the log sequence of a job is append-only: in every step the logs before the
\* step are a prefix of the logs after it (no entry removed, reordered or changed, new
\* entries at the end in the order of their emission), also when the item tasks of a
\* chunk interleave their log calls
C17_LogsAppendOnly == [][(Exists /\ Exists') => IsPrefix(TheJob.logs, TheJob'.logs)]_vars

\* two item tasks of a chunk have interleaved their log calls: one has finished its
\* replication while another has logged its comments and is still replicating
C17_Witness ==
    /\ Exists /\ Len(items) >= 2
    /\ items[1].pc = "linear" /\ items[2].pc = "ok"
    /\ HasLog("Processed Linear issue") /\ HasLog("Fetched comments page")
    /\ Len(TheJob.logs) >= 6


\* ------------------------------------------------------------- CSV round trip
\* the header and one record per task have been read back, each with the thirty
\* values that went in
SameFields ==
    /\ Len(csv.records) = 1 + Len(csv.tasks)
    /\ csv.records[1] = headers
    /\ \A k \in 1..Len(csv.tasks) : csv.records[k + 1] = Values(csv.tasks[k])

\* C18: for every field value built from an alphabet with comma, double quote and
\* newline, the text generateCSV produces, read back with the standard CSV quoting
\* rules, gives the same value in the same column and the same number of columns in
\* every row
C18_CsvRoundTrip == csv.pc = "read" => SameFields

\* two rows read back whose first and last fields hold a quote, a comma and a newline
C18_Witness ==
    /\ csv.pc = "read" /\ Len(csv.tasks) = 2 /\ SameFields
    /\ csv.tasks[1].title = <<Newline, Quote>> /\ csv.tasks[1].comments = <<Quote, Newline>>
    /\ csv.tasks[2].title = <<Comma, Quote>>
    /\ Len(csv.records[3]) = 30


\* ------------------------------------------------------------- chunk sequencing
\* the item tasks that have started and not settled
InFlight(its) == { k \in 1..Len(its) : its[k].pc \in {"comments", "linear"} }

\* the item tasks are those of the chunk at w.i, and at most five of them are in flight
OneChunkInFlight ==
    /\ Len(items) <= concurrency
    /\ \A k \in 1..Len(items) : w.i + k <= Len(w.tasks) /\ items[k].task = w.tasks[w.i + k]
    /\ Cardinality(InFlight(items)) <= concurrency

\* a step that leaves a chunk behind: its item tasks are dropped or the loop moves on
LeavesChunk == items # NoItems /\ (items' = NoItems \/ w'.i # w.i)

\* C19: no item task of chunk k+1 starts while an item task of chunk k is unsettled: the
\* tasks in flight are always those of one chunk, at most 5; the worker leaves a chunk
\* only in the step that settles its last item task (or after it); and after an item
\* task has failed the loop does not move to another chunk
C19_ChunksInSequence ==
    /\ []OneChunkInFlight
    /\ [][LeavesChunk => Cardinality(InFlight(items)) <= 1 /\ InFlight(items') = {}]_vars
    /\ [][w.rejected => w'.i = w.i /\ Len(items') = Len(items)]_vars

\* the second chunk is in flight after a first chunk of five
C19_Witness ==
    /\ w.i = concurrency /\ items # NoItems /\ InFlight(items) # {}
    /\ Len(w.all) = concurrency

\* an item task of a chunk of five has failed while others are in flight and a sixth
\* task waits for the next chunk
C19_WitnessFailed ==
    /\ w.rejected /\ w.i = 0 /\ Len(w.tasks) > concurrency
    /\ Cardinality(InFlight(items)) >= 2


\* ------------------------------------------------------------- failures and the gate
\* C20: every failure a network call against the primary upstream API observes (a
\* non-2xx response or an exception, in fetchAllPages or in a lookup) sets lastErrorTime
\* to the current time at once: lastErrorTime is the time of the latest failure
C20_FailureSetsLastErrorTime == failAt >= 0 => lastErrorTime = failAt


C22_AtMostFiveAttempts ==
    /\ [](\A id \in FetcherIds : \A p \in 1..Len(fetchers[id].asked) :
             fetchers[id].asked[p] <= PageRetries)
    /\ [][\A id \in FetcherIds :
             Issued(fetchers[id], fetchers'[id]) => fetchers'[id].page \notin fetchers[id].got]_vars

\* the first page has taken all five attempts, the last of which succeeded, and the
\* request for the second page is out
C22_Witness ==
    /\ Len(fetchers[1].asked) = 2 /\ fetchers[1].asked[1] = PageRetries
    /\ fetchers[1].got = {1} /\ fetchers[1].pc = "request"


\* ------------------------------------------------------------- stop flag
\* a step in which the item tasks of a chunk start
ChunkStarts == items' # NoItems /\ (items = NoItems \/ w'.i # w.i)

\* C23: an item task that starts while the stop flag of its job is set issues no
\* request, upstream or downstream: every item task of a chunk that starts with the
\* flag set has thrown before its comment fetch, stays as it is, and the worker has
\* ended, so nothing of that chunk is fetched, created, deleted or archived
C23_StoppedChunkIsSilent ==
    /\ [][(ChunkStarts /\ TheJob.shouldStop) =>
             /\ \A k \in 1..Len(items') :
                    items'[k].pc = "rejected" /\ items'[k].threw = "stop"
             /\ w'.pc = "done"]_vars
    /\ [][\A k \in 1..Len(items) :
             items[k].threw = "stop" => items' = items /\ w'.pc = "done"]_vars

\* the second chunk has started with the flag set, after a first chunk of five
C23_Witness ==
    /\ Exists /\ TheJob.shouldStop /\ w.i = concurrency /\ Len(w.all) = concurrency
    /\ items # NoItems /\ \A k \in 1..Len(items) : items[k].threw = "stop"

\* of any two comments of the sequence, the one created earlier comes first
OldestFirst(cs) ==
    \A i, j \in 1..Len(cs) : cs[i].created_at < cs[j].created_at => i < j

\* C24: the comments of an item are submitted oldest first: of any two comments of the
\* item, the one created earlier precedes the other in the bodies passed to
\* addCommentsToIssue and in the operations of the combined request.
C24_CommentsOldestFirst ==
    call.pc \in {"adding", "added"} =>
        OldestFirst(call.commentBodies) /\ OldestFirst(call.operations)

\* C25: for every non-empty list of issue ids, a list of one id included, archiveIssues
\* does not raise and returns one boolean per id in input order, true exactly for the
\* ids whose archive succeeded.
C25_ArchiveNeverRaises ==
    call.pc \in {"returned", "raised"} =>
        /\ ~call.raised
        /\ Len(call.results) = call.issueIds
        /\ \A k \in 1..call.issueIds : call.results[k] = (k \in call.archived)

C27_GoneJobEndsStream ==
    /\ [][(stream.interval /\ JobId \notin jobs /\ stream' # stream) =>
            /\ stream'.pc = "closed" /\ ~stream'.interval
            /\ stream'.last = stream.last
            /\ stream'.updates = stream.updates /\ stream'.later = stream.later]_vars
    /\ [](stream.endedBy = "tick" => stream.pc = "closed" /\ ~stream.interval)

\* a tick has found the job swept and ended the stream, whose last message is still
\* the one of a job that was there
C27_Witness ==
    /\ stream.endedBy = "tick" /\ stream.pc = "closed" /\ ~stream.interval
    /\ JobId \notin jobs /\ Exists /\ stream.last # <<>>

\* C28: after the observer disconnects, the poll timer is cleared: no later tick reads
\* the registry or writes a message to the stream, whatever the state of the job at
\* the time of the disconnect.
C28_DisconnectClearsTimer ==
    /\ [](stream.endedBy = "client" => ~stream.interval)
    /\ [][stream.endedBy = "client" =>
            /\ ~stream'.interval
            /\ stream'.last = stream.last
            /\ stream'.updates = stream.updates /\ stream'.later = stream.later]_vars

\* the observer left while the job was running, the job has completed since and is
\* still in the registry, and the stream holds no message about it
C28_Witness ==
    /\ stream.endedBy = "client" /\ stream.pc = "closed"
    /\ stream.last[2] = "running" /\ stream.updates = 0
    /\ JobId \in jobs /\ TheJob.status = "completed"


\* the comment counts of the items processed so far: those of the chunks joined to the
\* result and those of the chunk in flight
CountsSoFar ==
    Total([n \in 1..Len(w.all) |-> w.all[n].comments])
      + Total([k \in 1..Len(items) |-> items[k].count])

\* C29: no increment of progress.commentsProcessed is lost, whatever the order in
\* which the item tasks of a chunk return: commentsProcessed is the sum of the comment
\* counts of all items processed so far, in particular when a chunk has settled with
\* all its items succeeding.
C29_NoLostCommentCount ==
    Exists => TheJob.progress.commentsProcessed = CountsSoFar

\* two chunks have settled with every item succeeding, at least two items of the
\* first chunk and one of the second had comments
C29_Witness ==
    /\ Exists /\ Len(w.all) > concurrency /\ items = NoItems
    /\ Cardinality({ n \in 1..concurrency : w.all[n].comments > 0 }) >= 2
    /\ \E n \in (concurrency + 1)..Len(w.all) : w.all[n].comments > 0
    /\ TheJob.progress.commentsProcessed >= 3


\* C30: updateJob(id, updates) replaces exactly the top-level fields named in updates
\* on the job of that id and leaves every other field of that job and every other job
\* as they were; for an id that is not in the registry, updateJob and stopJob change
\* nothing and create no entry. (stopJob on a job of the registry is the update
\* {shouldStop: true}.)
C30_UpdateJobFrame ==
    [][(call' # call /\ call'.pc \in {"updateJob", "stopJob"}) =>
         LET id == call'.id
             updates == call'.updates
         IN  /\ jobs' = jobs
             /\ DOMAIN heap' = DOMAIN heap
             /\ \A x \in DOMAIN heap \ {id} : heap'[x] = heap[x]
             /\ IF id \in jobs
                THEN /\ DOMAIN heap'[id] = DOMAIN heap[id] \cup DOMAIN updates
                     /\ \A f \in DOMAIN updates : heap'[id][f] = updates[f]
                     /\ \A f \in DOMAIN heap[id] \ DOMAIN updates : heap'[id][f] = heap[id][f]
                ELSE heap' = heap]_vars

\* updateJob was called last with a failure for the job j2, which had been stopped and
\* swept and is as it was, next to a job j1 that earlier updates completed and gave a
\* progress
C30_Witness ==
    /\ call.pc = "updateJob" /\ call.id = "j2" /\ "error" \in DOMAIN call.updates
    /\ "j2" \notin jobs /\ "j2" \in DOMAIN heap
    /\ heap["j2"].status = "pending" /\ heap["j2"].error = None
    /\ "j1" \in jobs /\ heap["j1"].status = "completed"
    /\ heap["j1"].progress.tasksProcessed = 1 /\ heap["j1"].error = None


\* a text matches the terminal vocabulary by equality, by prefix, or by containment
\* with a length difference of at most 2
TerminalMatch(text) ==
    \E s \in archiveStatuses :
        text = s \/ startsWith(text, s) \/ (includes(text, s) /\ Len(text) - Len(s) <= 2)

\* the buckets one of whose names the status name contains
Buckets(statusName) ==
    { b \in 1..Len(statusMappings) :
        \E name \in statusMappings[b].productiveNames : includes(statusName, name) }

First(S) == CHOOSE b \in S : \A c \in S : b <= c

\* C31 (as claimed): the archive directive is returned exactly when the name or the
\* type of the status matches the terminal vocabulary by equality, prefix or
\* containment with length difference at most 2; otherwise the result holds the state
\* id of the matching bucket, or of the backlog state when no bucket matches; never a
\* state id together with shouldArchive = true.
C31_ArchiveOrState ==
    call.pc = "mapped" =>
        LET r == call.result
            statusName == toLowerCase(call.status.name)
            statusType == toLowerCase(call.status.type)
        IN  /\ r.shouldArchive <=> (TerminalMatch(statusName) \/ TerminalMatch(statusType))
            /\ ~r.shouldArchive =>
                 /\ r.stateId # "undefined"
                 /\ r.stateId =
                      IF Buckets(statusName) # {}
                      THEN StateOf(call.linearStates,
                                   statusMappings[First(Buckets(statusName))].linearState)
                      ELSE BacklogOf(call.linearStates)
            /\ ~(r.shouldArchive /\ r.stateId # "undefined")

\* C31 (amended): the archive directive is returned exactly when a status with
\* attributes is given and its name or type matches the terminal vocabulary by equality
\* or prefix, or its name matches by containment with length difference at most 2;
\* otherwise the result holds the state id of the first matching bucket that has a
\* state in the team, or of the backlog state when there is none, and no state id when
\* no status is given or the team has no such state; never a state id together with
\* shouldArchive = true.
C31_ArchiveOrState_Amended ==
    call.pc = "mapped" =>
        LET r == call.result
            statusName == toLowerCase(call.status.name)
            statusType == toLowerCase(call.status.type)
            withState == { b \in Buckets(statusName) :
                             StateOf(call.linearStates, statusMappings[b].linearState)
                                # "undefined" }
        IN  /\ r.shouldArchive <=>
                 /\ call.status.present
                 /\ \/ TerminalMatch(statusName)
                    \/ \E s \in archiveStatuses : statusType = s \/ startsWith(statusType, s)
            /\ ~r.shouldArchive =>
                 r.stateId =
                    IF ~call.status.present THEN "undefined"
                    ELSE IF withState # {}
                    THEN StateOf(call.linearStates, statusMappings[First(withState)].linearState)
                    ELSE BacklogOf(call.linearStates)
            /\ ~(r.shouldArchive /\ r.stateId # "undefined")

\* a status named "blocked" whose type contains a terminal word without starting with
\* it is not archived and, matching no bucket, gets the backlog state of the team
C31_Witness ==
    /\ call.pc = "mapped"
    /\ call.status.present /\ call.status.name = <<"b", "l", "o", "c", "k", "e", "d">>
    /\ call.status.type = <<"u", "n", "c", "l", "o", "s", "e", "d">>
    /\ call.result = [stateId |-> "s-backlog", shouldArchive |-> FALSE]


RECURSIVE Hits(_, _)
\* the tasks of the pool whose comment check found at least one comment, in order
Hits(pool, checks) ==
    IF pool = <<>> \/ checks = <<>> THEN <<>>
    ELSE (IF Head(checks) = "some" THEN <<Head(pool)>> ELSE <<>>)
            \o Hits(Tail(pool), Tail(checks))

TestLoopOver == w.pc \notin {"none", "fetchTasks", "fetchStatuses", "testCheck"}

C33_TerminalIsQuiet ==
    [][(Exists /\ TheJob.status \in Terminal) =>
          /\ TheJob'.logs = TheJob.logs
          /\ TheJob'.progress = TheJob.progress
          /\ items' = items]_vars


\* C34: within one fetchTaskComments pass at most one person request is issued per
\* distinct author id, however many comments share the author and in whatever order
\* the lookups are answered; a failed lookup yields the name "Unknown" for its comment
\* and does not fail the pass.
C34_OneRequestPerAuthor ==
    "requests" \in DOMAIN call =>
        /\ \A p \in PersonIds : call.requests[p] <= 1
        /\ ~call.raised
        /\ call.pc = "returned" => \A k \in 1..Len(call.personIds) : call.authorName[k] # "pending"


\* C35: in every state of a job the CSV result is present exactly when the status is
\* completed, and a failed job carries a non-empty error message; the status and the
\* result (or the error) arrive in the same step, so that no state shows completed
\* without a result or failed without an error.
C35_ResultWithStatus ==
    Exists =>
        /\ TheJob.csvData # None <=> TheJob.status = "completed"
        /\ TheJob.status = "failed" => TheJob.error # None /\ TheJob.error # Some("")

C35_Witness ==
    /\ Exists /\ TheJob.status = "completed" /\ TheJob.csvData # None
    /\ TheJob.error = None /\ Len(TheJob.csvData[1]) > 1


\* C36: a job removed from the registry while its worker runs is never inserted
\* again: every step taken after the removal leaves the registry without the job, so
\* that getJob keeps finding nothing, and none of the worker's updates is applied:
\* status, result and error stay as they were and no status is published.
C36_RemovedStaysRemoved ==
    [][(Exists /\ JobId \notin jobs) =>
          /\ JobId \notin jobs'
          /\ TheJob'.status = TheJob.status
          /\ TheJob'.csvData = TheJob.csvData
          /\ TheJob'.error = TheJob.error
          /\ TheJob'.linearIssuesCreated = TheJob.linearIssuesCreated
          /\ statusHist' = statusHist]_vars

C36_Witness ==
    /\ Exists /\ JobId \notin jobs
    /\ w.pc = "done" /\ Len(w.all) > 0
    /\ TheJob.status = "running" /\ TheJob.csvData = None


\* C37: the duplicate check of a task deletes only an issue that was created for that
\* task, never the issue of another task, also when the origin URL of the one is a
\* textual prefix of the origin URL of the other.
C37_DeletesOwnIssueOnly ==
    [][\A n \in 1..Len(target) :
          (~target[n].deleted /\ target'[n].deleted) => target[n].origin = repl.task]_vars


\* C38: when createLinearIssue returned an issue, the result of the item task carries
\* the id of that issue, also when a later step (the comments, a link comment, an
\* attachment) failed; so every created issue of an item with a terminal status is in
\* the archive batch of its chunk.
C38_CreatedIssueIsReturned ==
    ("made" \in DOMAIN call /\ call.pc = "returned" /\ call.made) =>
        /\ call.issueId
        /\ call.shouldArchive => InBatch(call)


\* C39 (as claimed): every submitted job eventually has status completed or failed,
\* given that every call returns or fails and every sleep ends: the worker neither
\* stays in pending or running forever nor ends without publishing a terminal status.
C39_ReachesTerminal ==
    /\ [](Exists /\ w.pc = "done" => TheJob.status \in Terminal)
    /\ Exists ~> (Exists /\ TheJob.status \in Terminal)

\* C39 (amended): the worker of every submitted job eventually ends, and a job that is
\* in the registry when its worker ends has status completed or failed; a job the
\* sweep removed before that keeps the status it had.
C39_WorkerEnds ==
    /\ [](Exists /\ w.pc = "done" /\ JobId \in jobs => TheJob.status \in Terminal)
    /\ Exists ~> w.pc = "done"

C39_Witness ==
    /\ Exists /\ JobId \in jobs /\ w.pc = "done"
    /\ TheJob.status = "completed" /\ w.i > 0 /\ Len(w.all) = MaxTasks


\* the snapshot of the job in the response last written
Viewed == IF req.kind = "status" THEN resp.data[1] ELSE resp.data[1].job

\* C40: every snapshot of a job that the event stream or the status endpoint sends
\* holds no field other than id, status, logs, progress and error: the credentials
\* (apiToken, linearApiKey) and the CSV result are not in it, neither as fields nor as
\* the value of a field or the message of a log entry.
C40_SnapshotFields ==
    (req.kind \in {"events", "status"} /\ resp.data # None) =>
        /\ DOMAIN Viewed \subseteq {"id", "status", "logs", "progress", "error"}
        /\ {"id", "status", "logs", "progress"} \subseteq DOMAIN Viewed
        /\ \A f \in DOMAIN Viewed \cap {"id", "status", "error"} :
              Viewed[f] \notin {TheJob.apiToken, TheJob.linearApiKey}
        /\ \A n \in 1..Len(Viewed.logs) :
              Viewed.logs[n].message \notin {TheJob.apiToken, TheJob.linearApiKey}

C40_Witness ==
    /\ req.kind = "events" /\ resp.data # None /\ resp.data[1].type = "update"
    /\ Exists /\ TheJob.status = "completed" /\ TheJob.csvData # None
    /\ Viewed.status = "completed" /\ "error" \notin DOMAIN Viewed

====
